---- MODULE Spec2Model ----
(***************************************************************************)
(* Model of the betterclaude-workers gateway: the retry orchestrator       *)
(* (retryWithCleanup), the upstream dispatcher (makeApiCall), the response *)
(* classifiers (isOverloadError, detectOrphanedToolError, the streaming    *)
(* gate) and the outer handlers that call them (proxyRequest, the Worker's *)
(* fetch handler).                                                         *)
(*                                                                         *)
(* One request is followed from the Worker's fetch handler to the response *)
(* sent to the client.  Every await on the upstream (fetch) and every      *)
(* sleep is a point where the model stops; the code between two such       *)
(* points is one action.                                                   *)
(***************************************************************************)
EXTENDS Integers, Sequences, FiniteSets, TLC

(***************************************************************************)
(* Bounds of the model.                                                    *)
(***************************************************************************)
\* longest conversation (number of messages) a request carries
MaxMsgs == 2

(***************************************************************************)
(* Program constants.                                                      *)
(***************************************************************************)
MutMaxOverloadRetries == 2 + 1

\* part_000:24
MAX_OVERLOAD_RETRIES == 2

\* part_000:254, the pause before the orphan-repair retry
REPAIR_PAUSE_MS == 100

(***************************************************************************)
(* Conversations.  A block is text, a tool_use carrying an id, or a        *)
(* tool_result carrying a tool_use_id.                                     *)
(***************************************************************************)
Ids == {"toolu_A", "toolu_X"}

\* ids for which a conversation may hold a tool_use block
UseIds == {"toolu_A"}

TextBlock == [type |-> "text", id |-> "", tool_use_id |-> ""]
ToolUse(i) == [type |-> "tool_use", id |-> i, tool_use_id |-> ""]
ToolResult(i) == [type |-> "tool_result", id |-> "", tool_use_id |-> i]

Blocks == {TextBlock} \cup {ToolUse(i) : i \in UseIds} \cup {ToolResult(i) : i \in Ids}

\* the content of one message: one block
Contents == {<<b>> : b \in Blocks}

RoleAt(i) == IF i % 2 = 1 THEN "assistant" ELSE "user"

Conversations ==
    UNION { { [i \in 1..k |-> [role |-> RoleAt(i), content |-> cs[i]]] :
                cs \in [1..k -> Contents] } : k \in 0..MaxMsgs }

RECURSIVE Flatten(_)
Flatten(ss) == IF ss = <<>> THEN <<>> ELSE Head(ss) \o Flatten(Tail(ss))

\* JSON.stringify of one content block, as a sequence of tokens
BlockText(b) ==
    IF b.type = "text" THEN <<"text">>
    ELSE IF b.type = "tool_use" THEN <<"tool_use", b.id>>
    ELSE <<"tool_result", b.tool_use_id>>

MessageText(m) ==
    <<m.role, "[">>
      \o Flatten([i \in 1..Len(m.content) |-> BlockText(m.content[i])])
      \o <<"]">>

\* JSON.stringify(body) for a body whose messages field is msgs
JSONStringify(msgs) ==
    Flatten([i \in 1..Len(msgs) |-> MessageText(msgs[i])])

(***************************************************************************)
(* Message sanitizer.                                                      *)
(***************************************************************************)
\* positions (message, block) of a conversation, in document order
RECURSIVE BlocksOf(_)
BlocksOf(msgs) ==
    IF msgs = <<>> THEN <<>> ELSE Head(msgs).content \o BlocksOf(Tail(msgs))

RECURSIVE Distinct(_)
Distinct(s) ==
    IF s = <<>> THEN <<>>
    ELSE LET rest == Distinct(SelectSeq(Tail(s), LAMBDA x : x # Head(s)))
         IN  <<Head(s)>> \o rest

IsToolUse(b) == b.type = "tool_use" /\ b.id # ""
IsToolResult(b) == b.type = "tool_result" /\ b.tool_use_id # ""

MutToolUseIds(msgs) ==
    { BlocksOf(SelectSeq(msgs, LAMBDA m : m.role = "assistant"))[k].id :
        k \in { n \in 1..Len(BlocksOf(SelectSeq(msgs, LAMBDA m : m.role = "assistant"))) :
                    IsToolUse(BlocksOf(SelectSeq(msgs, LAMBDA m : m.role = "assistant"))[n]) } }

\* V: every use-id of a tool_use block, across all messages and roles
ToolUseIds(msgs) ==
    { BlocksOf(msgs)[k].id : k \in { n \in 1..Len(BlocksOf(msgs)) : IsToolUse(BlocksOf(msgs)[n]) } }

\* O: the tool_use_ids of tool_result blocks that are not in V, in first-occurrence order
OrphanedIds(msgs) ==
    LET all == BlocksOf(msgs)
        refs == SelectSeq(all, LAMBDA b : IsToolResult(b) /\ b.tool_use_id \notin ToolUseIds(msgs))
    IN  Distinct([k \in 1..Len(refs) |-> refs[k].tool_use_id])

Range(s) == { s[k] : k \in 1..Len(s) }

\* the filter both sanitizer operations apply to every message's content
StripToolResults(msgs, ids) ==
    [i \in 1..Len(msgs) |->
        [msgs[i] EXCEPT !.content =
            SelectSeq(@, LAMBDA b : ~(IsToolResult(b) /\ b.tool_use_id \in ids))]]

\* scan-and-strip-all (proactive-cleanup.ts, imported at part_000:12)
detectAndRemoveOrphanedToolResults(msgs) ==
    LET O == OrphanedIds(msgs)
    IN  IF O = <<>>
        THEN [cleanedMessages |-> msgs, removedIds |-> <<>>, hadOrphans |-> FALSE]
        ELSE [cleanedMessages |-> StripToolResults(msgs, Range(O)),
              removedIds |-> O, hadOrphans |-> TRUE]

\* targeted-remove: part_000:92-109
removeOrphanedToolResult(msgs, toolUseId) ==
    LET orphanedIdsSet == {toolUseId}
    IN  [i \in 1..Len(msgs) |->
            [msgs[i] EXCEPT !.content =
                SelectSeq(@, LAMBDA block :
                    IF block.type = "tool_result" /\ block.tool_use_id # ""
                    THEN block.tool_use_id \notin orphanedIdsSet
                    ELSE TRUE)]]

(***************************************************************************)
(* Upstream responses.  A body is empty, plain text or JSON; msg is the    *)
(* text the classifiers look at, as a sequence of segments: ordinary text, *)
(* an overload phrase, a match of the Claude orphan pattern (P1) or of the *)
(* MiniMax orphan pattern (P2), each match citing one id.                  *)
(***************************************************************************)
Txt == [kind |-> "txt", id |-> ""]
Ovl == [kind |-> "overload", id |-> ""]
P1(i) == [kind |-> "P1", id |-> i]
P2(i) == [kind |-> "P2", id |-> i]

\* path: where the JSON carries msg ("none": msg is the raw text);
\* msgType: the JSON type of the value at that path
Body(form, path, msgType, msg) ==
    [form |-> form, path |-> path, msgType |-> msgType, msg |-> msg]

EmptyBody == Body("empty", "none", "string", <<>>)

Bodies ==
    { EmptyBody,
      Body("text", "none", "string", <<Txt>>),
      Body("text", "none", "string", <<Ovl>>),
      Body("json", "none", "string", <<Txt>>),
      Body("json", "message", "string", <<Ovl>>),
      Body("json", "error.message", "string", <<Ovl>>),
      Body("json", "error.message", "string", <<Txt>>),
      Body("json", "error.message", "number", <<>>),
      Body("json", "error.message", "string", <<P1("toolu_X")>>),
      Body("json", "error.message", "string", <<P1("toolu_A")>>),
      Body("json", "error.message", "string", <<P1("toolu_X"), Txt, P1("toolu_A")>>),
      Body("json", "error.message", "string", <<P2("toolu_A")>>) }

Statuses == {200, 400, 500, 503, 529}
\* the Content-Type and Transfer-Encoding headers of a response
Framings ==
    { [contentType |-> "application/json", transferEncoding |-> ""],
      [contentType |-> "text/event-stream", transferEncoding |-> ""],
      [contentType |-> "application/json", transferEncoding |-> "chunked"] }

\* what fetch resolves with: a response whose body nobody has read yet
Responses ==
    { [status |-> st, contentType |-> f.contentType,
       transferEncoding |-> f.transferEncoding, body |-> b] :
        st \in Statuses, f \in Framings, b \in Bodies }

NoResponse ==
    [id |-> 0, status |-> 0, contentType |-> "", transferEncoding |-> "",
     body |-> EmptyBody, clones |-> 0, bodyUsed |-> FALSE]

\* the Response object of dispatch number n
Received(r, n) ==
    [id |-> n, status |-> r.status, contentType |-> r.contentType,
     transferEncoding |-> r.transferEncoding, body |-> r.body,
     clones |-> 0, bodyUsed |-> FALSE]

MutIsStreamingResponse(r) == r.contentType \in {"text/event-stream"}

\* streaming-handler.ts:19-24
isStreamingResponse(r) ==
    \/ r.contentType \in {"text/event-stream"}
    \/ r.transferEncoding \in {"chunked"}

\* Response.ok
Ok(r) == r.status >= 200 /\ r.status <= 299

ReadPrimaryBody(r) == [r EXCEPT !.bodyUsed = TRUE]

\* response.clone().text(): the read consumes a clone, not the response
ReadClonedBody(r) == [r EXCEPT !.clones = @ + 1]

HasOverloadPhrase(msg) == \E k \in 1..Len(msg) : msg[k].kind = "overload"

\* spec 4.B and 7: an overload response has status 500, 503 or 529 and an
\* overload phrase in the message of its JSON body or in its non-JSON body
IsOverloadResponse(r) ==
    /\ r.status \in {500, 503, 529}
    /\ r.body.form \in {"text", "json"}
    /\ r.body.msgType = "string"
    /\ HasOverloadPhrase(r.body.msg)

MutOverloadStatus(r) == r.status \in {500, 529}

OverloadStatus(r) == r.status \in {500, 529, 503}

\* part_000:37-65, the value returned
isOverloadError(r) ==
    IF ~OverloadStatus(r) THEN FALSE
    ELSE IF r.body.form = "empty" THEN FALSE
    ELSE IF r.body.form = "json" /\ r.body.path # "none" /\ r.body.msgType # "string"
         THEN FALSE  \* message.toLowerCase throws; the catch returns false
    ELSE HasOverloadPhrase(r.body.msg)

\* part_000:37-65, the response after the call
AfterIsOverloadError(r) ==
    IF OverloadStatus(r) THEN ReadClonedBody(r) ELSE r

NoOrphanError == [isError |-> FALSE, orphanedIds |-> <<>>, provider |-> "null"]

Captures(msg, kind) ==
    LET hits == SelectSeq(msg, LAMBDA seg : seg.kind = kind)
    IN  [k \in 1..Len(hits) |-> hits[k].id]

MutDetectOrphanedToolError(r) ==
    IF r.status # 400 \/ r.body.form # "json" \/ r.body.path # "error.message"
          \/ r.body.msgType # "string"
    THEN NoOrphanError
    ELSE IF Len(Captures(r.body.msg, "P2")) > 0
    THEN [isError |-> TRUE, orphanedIds |-> Captures(r.body.msg, "P2"), provider |-> "minimax"]
    ELSE IF Len(Captures(r.body.msg, "P1")) > 0
    THEN [isError |-> TRUE, orphanedIds |-> Captures(r.body.msg, "P1"), provider |-> "claude"]
    ELSE NoOrphanError

\* claude-code-identity.ts:571-641, the value returned
detectOrphanedToolError(r) ==
    IF r.status # 400 THEN NoOrphanError
    ELSE IF r.body.form # "json" THEN NoOrphanError
    ELSE IF r.body.path = "error.message" /\ r.body.msgType # "string"
         THEN NoOrphanError  \* errorMessage.matchAll throws; the catch returns non-error
    ELSE LET errorMessage == IF r.body.path = "error.message" THEN r.body.msg ELSE <<>>
             claudeMatches == Captures(errorMessage, "P1")
             minimaxMatches == Captures(errorMessage, "P2")
         IN  IF Len(claudeMatches) > 0
             THEN [isError |-> TRUE, orphanedIds |-> claudeMatches, provider |-> "claude"]
             ELSE IF Len(minimaxMatches) > 0
             THEN [isError |-> TRUE, orphanedIds |-> minimaxMatches, provider |-> "minimax"]
             ELSE NoOrphanError

\* claude-code-identity.ts:571-641, the response after the call
AfterDetectOrphanedToolError(r) ==
    IF r.status # 400 THEN r ELSE ReadClonedBody(r)

(***************************************************************************)
(* State.                                                                  *)
(***************************************************************************)
VARIABLES
    request,              \* the client's request: its kind and, when it has one, its messages array
    pc,                   \* "start", "fetch" (an upstream fetch is pending), "sleep", "done"
    site,                 \* the call site of the pending fetch or sleep
    bodyText,             \* proxyRequest's bodyText, the text handed to retryWithCleanup
    messages,             \* retryWithCleanup's messages, which is also body.messages
    cleanedBodyText,      \* part_000:188
    hadProactiveCleanup,  \* part_000:191
    metadata,             \* retryWithCleanup's metadata; once done, the metadata returned
    response,             \* the latest Response received; once done, the response returned
    attempt,              \* the overload loop's counter, 0 before the loop
    returnedAt,           \* which return statement produced the result
    client,               \* the Response the Worker sends to the client
    fetches,              \* history: number of upstream fetch calls made for the request
    sent,                 \* history: the body of each makeApiCall, in order
    sleeps,               \* history: the duration of each sleep called, in order
    overloads,            \* history: for each response the overload loop saw, was it an overload response
    repairs,              \* history: number of targeted removals
    received,             \* history: what the latest fetch resolved with, NoResponse while one is pending
    failedAt,             \* history: fetches made when a makeApiCall of the orchestrator threw, 0 if none
    clientHeaders,        \* the headers of the client's request that the dispatcher's framing depends on
    headers,              \* proxyRequest's headers, the Headers object every dispatch of the request shares
    sentHeaders,          \* history: the headers of each makeApiCall, in order
    cancelled,            \* the client has gone away: request.signal is aborted
    fnInput,              \* the arguments of the function under study (the specifications of single functions)
    fnOutput,             \* its results so far, in order
    fnStage,              \* how many times it has been applied
    moduleState,          \* the module-level bindings of the isolate, shared by every invocation in it
    invocations           \* the invocations in flight in one isolate (the specification of concurrency)

vars ==
    <<request, pc, site, bodyText, messages, cleanedBodyText, hadProactiveCleanup,
      metadata, response, attempt, returnedAt, client, fetches, sent,
      sleeps, overloads, repairs, failedAt, received,
      clientHeaders, headers, sentHeaders, cancelled, fnInput, fnOutput, fnStage,
      moduleState, invocations>>

\* what no step of the request's own processing changes
envVars == <<clientHeaders, cancelled, fnInput, fnOutput, fnStage, moduleState, invocations>>

\* the specifications that follow one request leave the isolate out
Alone == moduleState = <<>> /\ invocations = <<>>

\* the variables of the specifications of single functions, at rest
FnIdle == fnInput = <<>> /\ fnOutput = <<>> /\ fnStage = 0

\* a Headers object, as far as the dispatcher's framing goes
HeaderSets == [contentLength : BOOLEAN]

MutDeleteContentLength(h) == h

\* Headers.delete('content-length'): part_000:78
DeleteContentLength(h) == [h EXCEPT !.contentLength = FALSE]

\* proxy.ts:58-68: every header of the client that is neither hop-by-hop nor
\* proxy-managed is copied, content-length among them
buildUpstreamHeaders(h) == [contentLength |-> h.contentLength]

\* part_000:173-178
InitialMetadata ==
    [removedToolUseIds |-> <<>>, proactiveRemovedIds |-> <<>>,
     retryCount |-> 0, result |-> "success"]

\* the Worker's own 502: index.ts:71-77
BadGateway ==
    [id |-> 0, status |-> 502, contentType |-> "text/plain", transferEncoding |-> "",
     body |-> Body("text", "none", "string", <<Txt>>), clones |-> 0, bodyUsed |-> FALSE]

\* the shapes of request proxyRequest tells apart (proxy.ts:186-286)
RequestKinds ==
    {"no_body", "not_json_type", "invalid_json", "json_null", "no_messages", "messages"}

Requests ==
    [kind : RequestKinds \ {"messages"}, messages : {<<>>}]
      \cup [kind : {"messages"}, messages : Conversations]

\* the state of one request as the Worker's fetch handler is entered
Entered(req, hdrs) ==
    /\ request = req
    /\ clientHeaders = hdrs
    /\ headers = [contentLength |-> FALSE]
    /\ sentHeaders = <<>>
    /\ cancelled = FALSE
    /\ pc = "start"
    /\ site = "none"
    /\ bodyText = <<>>
    /\ messages = <<>>
    /\ cleanedBodyText = <<>>
    /\ hadProactiveCleanup = FALSE
    /\ metadata = InitialMetadata
    /\ response = NoResponse
    /\ attempt = 0
    /\ returnedAt = "none"
    /\ client = NoResponse
    /\ fetches = 0
    /\ sent = <<>>
    /\ sleeps = <<>>
    /\ overloads = <<>>
    /\ repairs = 0
    /\ failedAt = 0
    /\ received = NoResponse

Init ==
    /\ \E req \in Requests : Entered(req, [contentLength |-> FALSE])
    /\ FnIdle
    /\ Alone

(***************************************************************************)
(* makeApiCall (part_000:70-87): the call itself, up to the pending fetch. *)
(***************************************************************************)
makeApiCall(h, body, at) ==
    /\ headers' = DeleteContentLength(h)
    /\ sentHeaders' = Append(sentHeaders, DeleteContentLength(h))
    /\ pc' = "fetch"
    /\ site' = at
    /\ fetches' = fetches + 1
    /\ sent' = Append(sent, body)

\* a fetch proxyRequest makes itself (proxy.ts:190, 215, 252, 270)
directFetch(at) ==
    /\ pc' = "fetch"
    /\ site' = at
    /\ fetches' = fetches + 1
    /\ UNCHANGED <<sent, sentHeaders>>

(***************************************************************************)
(* The return statements.                                                  *)
(***************************************************************************)
\* index.ts:68-70: the Worker answers with proxyResult.response
Return(resp, md, at) ==
    /\ pc' = "done"
    /\ site' = "none"
    /\ response' = resp
    /\ metadata' = md
    /\ returnedAt' = at
    /\ client' = resp

MutSuccessLabel(md, hadCleanup) ==
    IF hadCleanup THEN "proactive_success"
    ELSE IF md.retryCount > 0 THEN "retry_success"
    ELSE "success"

\* part_000:213-219 and 226-232
SuccessLabel(md, hadCleanup) ==
    IF md.retryCount > 0 THEN "retry_success"
    ELSE IF hadCleanup THEN "proactive_success"
    ELSE "success"

MutFinalLabel(md) == "retry_success"

\* part_000:280
FinalLabel(md) == IF md.retryCount > 0 THEN "retry_success" ELSE "success"

\* sleep (part_000:19-21): the call, up to the pending timer
sleep(ms, at) ==
    /\ pc' = "sleep"
    /\ site' = at
    /\ sleeps' = Append(sleeps, ms)

(***************************************************************************)
(* proxyRequest, for a request that does not reach the orchestrator        *)
(* (proxy.ts:184-231, 233-286): up to its upstream fetch.                  *)
(***************************************************************************)
DirectSite(kind) ==
    CASE kind = "no_body"       -> "no_body"        \* proxy.ts:190, GET or HEAD
      [] kind = "not_json_type" -> "not_json_type"  \* proxy.ts:215
      [] kind = "no_messages"   -> "no_messages"    \* proxy.ts:252
      [] kind = "invalid_json"  -> "fallback"       \* JSON.parse throws: proxy.ts:270
      [] kind = "json_null"     -> "fallback"       \* null.messages throws: proxy.ts:270

ProxyRequest ==
    /\ pc = "start"
    /\ request.kind # "messages"
    /\ headers' = buildUpstreamHeaders(clientHeaders)
    /\ directFetch(DirectSite(request.kind))
    /\ UNCHANGED envVars
    /\ UNCHANGED <<request, bodyText, messages, cleanedBodyText, hadProactiveCleanup,
                   metadata, response, attempt, returnedAt, client, sleeps,
                   overloads, repairs, failedAt, received>>

(***************************************************************************)
(* proxyRequest handing a body with a messages array to retryWithCleanup   *)
(* (proxy.ts:247-249), and retryWithCleanup up to its first makeApiCall    *)
(* (part_000:132-194).                                                     *)
(***************************************************************************)
RetryWithCleanup ==
    /\ pc = "start"
    /\ request.kind = "messages"
    /\ LET cleanupResult == detectAndRemoveOrphanedToolResults(request.messages)
           cleaned == JSONStringify(cleanupResult.cleanedMessages)
       IN  /\ bodyText' = JSONStringify(request.messages)
           /\ messages' = cleanupResult.cleanedMessages
           /\ metadata' = [InitialMetadata EXCEPT
                              !.proactiveRemovedIds = cleanupResult.removedIds]
           /\ cleanedBodyText' = cleaned
           /\ hadProactiveCleanup' = cleanupResult.hadOrphans
           /\ makeApiCall(buildUpstreamHeaders(clientHeaders), cleaned, "first")
    /\ UNCHANGED envVars
    /\ UNCHANGED <<request, response, attempt, returnedAt, client, sleeps,
                   overloads, repairs, failedAt, received>>

(***************************************************************************)
(* retryWithCleanup from the end of the overload loop to its next await    *)
(* or return (part_000:211-282).                                           *)
(***************************************************************************)
MutRepairId(ids) == ids[Len(ids)]

\* part_000:245
RepairId(ids) == ids[1]

AfterOverloadLoop(resp) ==
    IF isStreamingResponse(resp)
    THEN /\ Return(resp, [metadata EXCEPT !.result = SuccessLabel(metadata, hadProactiveCleanup)],
                   "streaming")
         /\ UNCHANGED <<messages, attempt, sleeps, repairs>>
    ELSE IF Ok(resp)
    THEN /\ Return(resp, [metadata EXCEPT !.result = SuccessLabel(metadata, hadProactiveCleanup)],
                   "ok")
         /\ UNCHANGED <<messages, attempt, sleeps, repairs>>
    ELSE LET errorInfo == detectOrphanedToolError(resp)
             checked == IF resp.status = 400 THEN AfterDetectOrphanedToolError(resp) ELSE resp
         IN  IF resp.status = 400 /\ errorInfo.isError /\ Len(errorInfo.orphanedIds) > 0
             THEN /\ messages' = removeOrphanedToolResult(messages, RepairId(errorInfo.orphanedIds))
                  /\ metadata' = [metadata EXCEPT
                                     !.removedToolUseIds = @ \o errorInfo.orphanedIds,
                                     !.retryCount = @ + 1]
                  /\ response' = checked
                  /\ repairs' = repairs + 1
                  /\ sleep(REPAIR_PAUSE_MS, "repair")
                  /\ UNCHANGED <<attempt, returnedAt, client>>
             ELSE /\ Return(checked, [metadata EXCEPT !.result = FinalLabel(metadata)], "other")
                  /\ UNCHANGED <<messages, attempt, sleeps, repairs>>

MutBackoff(n) == 1000 * (2 ^ n)

\* part_000:202
Backoff(n) == 1000 * (2 ^ (n - 1))

(***************************************************************************)
(* A makeApiCall of the first attempt or of the overload loop resolves     *)
(* (part_000:194, 204): the overload check (199, 205), then either the     *)
(* next back-off sleep or the rest of the function.                        *)
(***************************************************************************)
MakeApiCallReturns(r) ==
    /\ pc = "fetch"
    /\ site \in {"first", "overload"}
    /\ LET got == Received(r, fetches)
           overload == isOverloadError(got)
           resp == AfterIsOverloadError(got)
           next == attempt + 1
       IN  /\ received' = got
           /\ overloads' = Append(overloads, IsOverloadResponse(got))
           /\ IF overload /\ next <= MAX_OVERLOAD_RETRIES
              THEN /\ attempt' = next
                   /\ metadata' = [metadata EXCEPT !.retryCount = next]
                   /\ response' = resp
                   /\ sleep(Backoff(next), "overload")
                   /\ UNCHANGED <<messages, returnedAt, client, repairs>>
              ELSE AfterOverloadLoop(resp)
    /\ UNCHANGED envVars
    /\ UNCHANGED <<request, bodyText, cleanedBodyText, hadProactiveCleanup, fetches,
                   sent, failedAt, headers, sentHeaders>>

MutRepairSite == "first"

\* part_000:258-271: the repair response is handled by the code after the
\* retry, which neither classifies nor repairs again
RepairSite == "repair"

MutOverloadRetryBody == bodyText

\* part_000:204: the body of an overload retry
OverloadRetryBody == cleanedBodyText

\* part_000:257: the body of the orphan-repair retry
RetryBodyText == JSONStringify(messages)

(***************************************************************************)
(* A sleep ends and the retry is dispatched (part_000:202-204, 254-258).   *)
(***************************************************************************)
SleepElapses ==
    /\ pc = "sleep"
    /\ IF site = "overload"
       THEN makeApiCall(headers, OverloadRetryBody, "overload")
       ELSE makeApiCall(headers, RetryBodyText, RepairSite)
    \* the response in hand is not looked at again: the model forgets it here
    /\ response' = NoResponse
    /\ received' = NoResponse
    /\ UNCHANGED envVars
    /\ UNCHANGED <<request, bodyText, messages, cleanedBodyText, hadProactiveCleanup,
                   metadata, attempt, returnedAt, client, sleeps,
                   overloads, repairs, failedAt>>

(***************************************************************************)
(* The makeApiCall of the orphan-repair retry resolves (part_000:258-271). *)
(***************************************************************************)
RepairCallReturns(r) ==
    /\ pc = "fetch"
    /\ site = "repair"
    /\ received' = Received(r, fetches)
    /\ LET retryResponse == Received(r, fetches)
       IN  IF isStreamingResponse(retryResponse)
           THEN Return(retryResponse, [metadata EXCEPT !.result = "retry_success"],
                       "repair_streaming")
           ELSE IF Ok(retryResponse)
           THEN Return(retryResponse, [metadata EXCEPT !.result = "retry_success"],
                       "repair")
           ELSE Return(retryResponse, metadata, "repair")
    /\ UNCHANGED envVars
    /\ UNCHANGED <<request, bodyText, messages, cleanedBodyText, hadProactiveCleanup,
                   attempt, fetches, sent, sleeps, overloads, repairs, failedAt,
                   headers, sentHeaders>>

(***************************************************************************)
(* A fetch of proxyRequest itself resolves (proxy.ts:190-203, 215-230,     *)
(* 252-267, 270-285).                                                      *)
(***************************************************************************)
DirectFetchReturns(r) ==
    /\ pc = "fetch"
    /\ site \in {"no_body", "not_json_type", "no_messages", "fallback"}
    /\ received' = Received(r, fetches)
    /\ Return(Received(r, fetches), InitialMetadata, site)
    /\ UNCHANGED envVars
    /\ UNCHANGED <<request, bodyText, messages, cleanedBodyText, hadProactiveCleanup,
                   attempt, fetches, sent, sleeps, overloads, repairs, failedAt,
                   headers, sentHeaders>>

(***************************************************************************)
(* A pending fetch rejects (a transport failure).                          *)
(***************************************************************************)
\* the call sites inside proxyRequest's try block (proxy.ts:234-267)
InTry(at) == at \in {"first", "overload", "repair", "no_messages"}

\* proxy.ts:268-276: the exception lands in proxyRequest's catch, which
\* forwards bodyText itself; the frame of retryWithCleanup is gone
FetchThrowsInTry ==
    /\ pc = "fetch"
    /\ InTry(site)
    /\ directFetch("fallback")
    /\ failedAt' = IF site = "no_messages" THEN failedAt ELSE fetches
    /\ messages' = <<>>
    /\ cleanedBodyText' = <<>>
    /\ hadProactiveCleanup' = FALSE
    /\ metadata' = InitialMetadata
    /\ response' = NoResponse
    /\ attempt' = 0
    /\ received' = NoResponse
    /\ UNCHANGED envVars
    /\ UNCHANGED <<request, bodyText, returnedAt, client, sleeps, overloads, repairs, headers>>

\* index.ts:71-77: nothing in proxyRequest catches it; the Worker answers 502
FetchThrowsOutside ==
    /\ pc = "fetch"
    /\ ~InTry(site)
    /\ pc' = "done"
    /\ site' = "none"
    /\ client' = BadGateway
    /\ returnedAt' = "threw"
    /\ UNCHANGED envVars
    /\ UNCHANGED <<request, bodyText, messages, cleanedBodyText, hadProactiveCleanup,
                   metadata, response, attempt, fetches, sent, sleeps, overloads,
                   repairs, failedAt, received, headers, sentHeaders>>

Next ==
    \/ ProxyRequest
    \/ RetryWithCleanup
    \/ \E r \in Responses : MakeApiCallReturns(r)
    \/ SleepElapses
    \/ \E r \in Responses : RepairCallReturns(r)
    \/ \E r \in Responses : DirectFetchReturns(r)
    \/ FetchThrowsInTry
    \/ FetchThrowsOutside

Spec == Init /\ [][Next]_vars

(***************************************************************************)
(* Vocabulary of the properties.                                           *)
(***************************************************************************)
\* the request reached retryWithCleanup and none of its dispatches threw
Orchestrated == request.kind = "messages" /\ failedAt = 0

\* retryWithCleanup has returned a result
Returned == returnedAt \in {"streaming", "ok", "other", "repair", "repair_streaming"}

\* the back-off sleeps of the overload loop: every sleep but the repair pause
BackoffSleeps == SelectSeq(sleeps, LAMBDA ms : ms # REPAIR_PAUSE_MS)

\* the dispatches of the first attempt and of the overload loop, as indices of sent
LoopDispatches == { k \in 1..Len(sent) : k <= 1 + Len(BackoffSleeps) }

AllOverload == \A k \in 1..Len(overloads) : overloads[k]

IsPrefix(s, t) == Len(s) <= Len(t) /\ s = SubSeq(t, 1, Len(s))

\* the response in hand is what the upstream sent, not a copy or a rewrite
Verbatim(resp) ==
    /\ resp.id = received.id
    /\ resp.status = received.status
    /\ resp.contentType = received.contentType
    /\ resp.transferEncoding = received.transferEncoding
    /\ resp.body = received.body

\* the proactive step found orphans in the conversation the client sent
ProactiveHadOrphans == OrphanedIds(request.messages) # <<>>

(***************************************************************************)
(* C1.  An invocation of retryWithCleanup on a body with a messages array  *)
(* makes at most 1 + MAX_OVERLOAD_RETRIES + 1 = 4 makeApiCall calls,       *)
(* whatever the upstream answers.                                          *)
(***************************************************************************)
C1_DispatchBound == Len(sent) <= 4

C1_Witness == pc = "done" /\ Returned /\ Len(sent) = 4

(***************************************************************************)
(* C2.  Reactive orphan repair (targeted removal and re-dispatch) runs at  *)
(* most once per invocation: when the repair response is itself a 400      *)
(* citing an orphaned id, it is returned, with no further removal and no   *)
(* further dispatch.                                                       *)
(***************************************************************************)
C2_RepairOnce ==
    /\ repairs <= 1
    /\ Len(SelectSeq(sleeps, LAMBDA ms : ms = REPAIR_PAUSE_MS)) <= 1
    /\ Orchestrated => Len(sent) <= 1 + Len(BackoffSleeps) + repairs
    /\ (Orchestrated /\ repairs = 1 /\ pc = "fetch") => site = "repair"
    /\ (Orchestrated /\ repairs = 1 /\ pc = "done") =>
          /\ returnedAt \in {"repair", "repair_streaming"}
          /\ client = response
          /\ Verbatim(response)
          /\ response.id = Len(sent)
          /\ response.clones = 0

C2_Witness ==
    /\ pc = "done"
    /\ returnedAt = "repair"
    /\ response.status = 400
    /\ detectOrphanedToolError(response).isError
    /\ repairs = 1

(***************************************************************************)
(* C3.  A response that is streaming-shaped (content-type text/event-stream*)
(* or transfer-encoding chunked) and whose status is not 400 is never read *)
(* or cloned by retryWithCleanup.                                          *)
(***************************************************************************)
C3_StreamingNeverRead ==
    (isStreamingResponse(response) /\ response.status # 400) =>
        (response.clones = 0 /\ ~response.bodyUsed)

(***************************************************************************)
(* C4.  Overload back-off: the loop re-dispatches at most                  *)
(* MAX_OVERLOAD_RETRIES = 2 times, sleeps 1000 ms before retry 1 and       *)
(* 2000 ms before retry 2, retries only while the latest response is an    *)
(* overload response, and leaves retryCount at the number of overload      *)
(* retries made; after overload, overload, 200 there were the sleeps       *)
(* (1000, 2000), retryCount is 2 and the outcome is retry_success.         *)
(***************************************************************************)
C4_OverloadBackoff ==
    /\ Len(BackoffSleeps) <= 2
    /\ IsPrefix(BackoffSleeps, <<1000, 2000>>)
    /\ \A k \in 1..Len(overloads) : k < Len(overloads) => overloads[k]
    /\ Orchestrated =>
          /\ Len(BackoffSleeps) = Cardinality({k \in 1..Len(overloads) : overloads[k] /\ k <= 2})
          /\ metadata.retryCount = Len(BackoffSleeps) + repairs
    /\ (Orchestrated /\ pc = "done" /\ overloads = <<TRUE, TRUE, FALSE>>
          /\ Len(sent) = 3 /\ response.status = 200) =>
          /\ sleeps = <<1000, 2000>>
          /\ metadata.retryCount = 2
          /\ metadata.result = "retry_success"

C4_Witness ==
    /\ Orchestrated
    /\ pc = "done"
    /\ overloads = <<TRUE, TRUE, FALSE>>
    /\ Len(sent) = 3
    /\ response.status = 200
    /\ sleeps = <<1000, 2000>>
    /\ metadata.result = "retry_success"

(***************************************************************************)
(* C5.  Every dispatch of the overload loop sends the body bytes of        *)
(* dispatch 1, which are the serialization of the proactively cleaned      *)
(* body.                                                                   *)
(***************************************************************************)
C5_SameBodyBytes ==
    \A k \in LoopDispatches :
        /\ sent[k] = sent[1]
        /\ sent[k] = JSONStringify(detectAndRemoveOrphanedToolResults(request.messages).cleanedMessages)

C5_Witness ==
    /\ Orchestrated
    /\ ProactiveHadOrphans
    /\ Len(BackoffSleeps) = 2
    /\ Len(sent) >= 3
    /\ sent[3] = sent[1]
    /\ sent[1] # bodyText

(***************************************************************************)
(* C6.  When every upstream response is an overload response,              *)
(* retryWithCleanup ends after exactly 1 + MAX_OVERLOAD_RETRIES dispatches *)
(* and returns the last response received, unchanged and unconsumed, with  *)
(* retryCount = 2.                                                         *)
(***************************************************************************)
C6_OverloadExhausted ==
    (Orchestrated /\ pc = "done" /\ AllOverload) =>
        /\ Len(sent) = 3
        /\ Len(overloads) = 3
        /\ Returned
        /\ client = response
        /\ Verbatim(response)
        /\ response.id = 3
        /\ ~response.bodyUsed
        /\ IsOverloadResponse(response)
        /\ metadata.retryCount = 2

C6_Witness ==
    /\ Orchestrated
    /\ pc = "done"
    /\ overloads = <<TRUE, TRUE, TRUE>>
    /\ response.status = 503
    /\ client = response

(***************************************************************************)
(* C7.  A transport failure (fetch throws) during a dispatch of the        *)
(* orchestrator is not swallowed: no further upstream dispatch is made for *)
(* the request and the client receives the Worker's 502 Bad Gateway.       *)
(***************************************************************************)
C7_TransportFailureSurfaces ==
    failedAt > 0 =>
        /\ fetches = failedAt
        /\ pc = "done" => client = BadGateway

(***************************************************************************)
(* C8.  The response retryWithCleanup returns is, verbatim, the last       *)
(* response received from the dispatcher, and its primary body has not     *)
(* been consumed: every classification read was made on a clone.           *)
(***************************************************************************)
C8_ReturnsLastVerbatim ==
    /\ ~response.bodyUsed
    /\ Returned =>
          /\ Verbatim(response)
          /\ response.id = fetches
          /\ response.id = Len(sent)
          /\ client = response

C8_Witness ==
    /\ Returned
    /\ returnedAt = "other"
    /\ response.status = 400
    /\ response.clones = 1
    /\ response.id = 3
    /\ client = response

(***************************************************************************)
(* C9.  At the streaming gate and at the 2xx check the outcome is          *)
(* retry_success if retryCount > 0, else proactive_success if the          *)
(* proactive step had orphans, else success; a first response that is 200  *)
(* with content-type text/event-stream gives retryCount = 0, no reactive   *)
(* removals and an outcome that reflects proactive cleanup only.           *)
(***************************************************************************)
C9_OutcomeLabel ==
    /\ returnedAt \in {"streaming", "ok"} =>
          metadata.result =
              IF metadata.retryCount > 0 THEN "retry_success"
              ELSE IF ProactiveHadOrphans THEN "proactive_success"
              ELSE "success"
    /\ (returnedAt = "streaming" /\ Len(sent) = 1 /\ response.status = 200
          /\ response.contentType = "text/event-stream") =>
          /\ metadata.retryCount = 0
          /\ metadata.removedToolUseIds = <<>>
          /\ metadata.result = IF ProactiveHadOrphans THEN "proactive_success" ELSE "success"

C9_Witness ==
    /\ returnedAt = "streaming"
    /\ Len(sent) = 1
    /\ response.status = 200
    /\ response.contentType = "text/event-stream"
    /\ metadata.result = "proactive_success"

(***************************************************************************)
(* C10, as stated.  In every result retryWithCleanup returns,              *)
(* retry_success implies retryCount > 0 and a streaming or 2xx response;   *)
(* proactive_success implies retryCount = 0, at least one orphan removed   *)
(* by the proactive step, and a streaming or 2xx response.                 *)
(***************************************************************************)
C10_LabelsMeanSuccess ==
    Returned =>
        /\ metadata.result = "retry_success" =>
              /\ metadata.retryCount > 0
              /\ isStreamingResponse(response) \/ Ok(response)
        /\ metadata.result = "proactive_success" =>
              /\ metadata.retryCount = 0
              /\ Len(metadata.proactiveRemovedIds) > 0
              /\ isStreamingResponse(response) \/ Ok(response)

(***************************************************************************)
(* C10, amended.  retry_success implies retryCount > 0, and a streaming or *)
(* 2xx response unless the result comes from the final fall-through        *)
(* (part_000:276-282), where the response is a non-streaming non-2xx one   *)
(* that followed at least one overload retry; proactive_success is as      *)
(* stated.                                                                 *)
(***************************************************************************)
C10_LabelsAmended ==
    Returned =>
        /\ metadata.result = "retry_success" =>
              /\ metadata.retryCount > 0
              /\ \/ isStreamingResponse(response)
                 \/ Ok(response)
                 \/ /\ returnedAt = "other"
                    /\ Len(BackoffSleeps) >= 1
        /\ metadata.result = "proactive_success" =>
              /\ metadata.retryCount = 0
              /\ Len(metadata.proactiveRemovedIds) > 0
              /\ isStreamingResponse(response) \/ Ok(response)

C10_Witness ==
    /\ Returned
    /\ returnedAt = "other"
    /\ metadata.result = "retry_success"
    /\ response.status = 529
    /\ ~isStreamingResponse(response)

(***************************************************************************)
(* C11.  metadata.removedToolUseIds lists the ids removed in the reactive  *)
(* step: once the orphan repair has run, the conversation serialized for   *)
(* the repair dispatch holds no tool_result block whose tool_use_id is in  *)
(* metadata.removedToolUseIds, also when the upstream 400 cited more than  *)
(* one id.                                                                 *)
(***************************************************************************)
C11_RemovedIdsAbsent ==
    (Orchestrated /\ repairs = 1) =>
        \A k \in 1..Len(BlocksOf(messages)) :
            ~ /\ IsToolResult(BlocksOf(messages)[k])
              /\ BlocksOf(messages)[k].tool_use_id \in Range(metadata.removedToolUseIds)

(***************************************************************************)
(* The client's side of a request.  The client may go away while           *)
(* retryWithCleanup waits for a sleep or a fetch: request.signal aborts.   *)
(* Nothing in the Worker listens: sleep (part_000:19-21) is a setTimeout   *)
(* that nothing clears, makeApiCall (part_000:80-86) hands fetch no        *)
(* signal, and retryWithCleanup never looks at request.signal.             *)
(***************************************************************************)
\* longest conversation of a request in the specification of the client's side
MaxMsgsClient == 1

ClientRequests ==
    { req \in Requests : req.kind = "messages" /\ Len(req.messages) <= MaxMsgsClient }

InitClient ==
    /\ \E req \in ClientRequests, h \in HeaderSets : Entered(req, h)
    /\ FnIdle
    /\ Alone

ClientCancels ==
    /\ ~cancelled
    /\ pc \in {"fetch", "sleep"}
    /\ site \in {"first", "overload", "repair"}
    /\ cancelled' = TRUE
    /\ UNCHANGED <<request, pc, site, bodyText, messages, cleanedBodyText,
                   hadProactiveCleanup, metadata, response, attempt, returnedAt,
                   client, fetches, sent, sleeps, overloads, repairs, failedAt,
                   received, clientHeaders, headers, sentHeaders,
                   fnInput, fnOutput, fnStage, moduleState, invocations>>

NextClient ==
    \/ RetryWithCleanup
    \/ \E r \in Responses : MakeApiCallReturns(r)
    \/ SleepElapses
    \/ \E r \in Responses : RepairCallReturns(r)
    \/ \E r \in Responses : DirectFetchReturns(r)
    \/ FetchThrowsInTry
    \/ FetchThrowsOutside
    \/ ClientCancels

SpecClient == InitClient /\ [][NextClient]_vars

(***************************************************************************)
(* C12.  No retry begins after cancellation: once the client has cancelled *)
(* while retryWithCleanup is suspended in a back-off sleep or a dispatch,  *)
(* no later dispatch (overload retry or orphan-repair retry) is started.   *)
(***************************************************************************)
C12_NoRetryAfterCancel ==
    [][(cancelled /\ failedAt = 0 /\ failedAt' = 0) => Len(sent') = Len(sent)]_vars

(***************************************************************************)
(* C20.  Every makeApiCall of a message-bearing request (the first         *)
(* attempt, each overload retry, the orphan-repair retry) is dispatched    *)
(* with headers that hold no content-length, also when the client sent one *)
(* and sanitization changed the body.                                      *)
(***************************************************************************)
C20_NoContentLength ==
    /\ Len(sentHeaders) = Len(sent)
    /\ \A k \in 1..Len(sentHeaders) : ~sentHeaders[k].contentLength
    /\ (pc = "fetch" /\ site \in {"first", "overload", "repair"}) => ~headers.contentLength

C20_Witness ==
    /\ clientHeaders.contentLength
    /\ Len(sent) = 4
    /\ repairs = 1
    /\ Len(BackoffSleeps) = 2
    /\ sent[1] # bodyText
    /\ ~sentHeaders[1].contentLength
    /\ ~sentHeaders[4].contentLength

(***************************************************************************)
(* The proactive step on its own: retryWithCleanup from its entry to the   *)
(* first makeApiCall (part_000:132-194), for conversations whose messages  *)
(* hold up to two blocks.                                                  *)
(***************************************************************************)
\* longest conversation of a request in the specification of the proactive step
MaxMsgsScan == 2

ScanContents ==
    {<<>>} \cup {<<b>> : b \in Blocks} \cup {<<b, c>> : b \in Blocks, c \in Blocks}

ScanConversations ==
    UNION { { [i \in 1..k |-> [role |-> RoleAt(i), content |-> cs[i]]] :
                cs \in [1..k -> ScanContents] } : k \in 0..MaxMsgsScan }

InitScan ==
    /\ \E c \in ScanConversations :
          Entered([kind |-> "messages", messages |-> c], [contentLength |-> FALSE])
    /\ FnIdle
    /\ Alone

NextScan == RetryWithCleanup

SpecScan == InitScan /\ [][NextScan]_vars

\* the tool_use ids of a conversation, from any message of any role
DeclaredIds(C) ==
    UNION { { C[i].content[j].id :
                j \in { n \in 1..Len(C[i].content) : C[i].content[n].type = "tool_use" } } :
            i \in 1..Len(C) }

\* a tool_result block that references an id no tool_use block of C declares
IsOrphan(b, C) == b.type = "tool_result" /\ b.tool_use_id \notin DeclaredIds(C)

(***************************************************************************)
(* C13.  After scan-and-strip-all of a conversation C no remaining         *)
(* tool_result block references an id that no tool_use block of C (of any  *)
(* message, any role) declares; removedIds is exactly the set of orphaned  *)
(* ids; every other block is kept; message order and the order of the      *)
(* remaining blocks are preserved; and the body of dispatch 1 is the       *)
(* serialization of that result, so it holds no such orphan.               *)
(***************************************************************************)
C13_ScanStripsAllOrphans ==
    (pc = "fetch" /\ site = "first") =>
        LET C == request.messages
        IN  /\ Len(messages) = Len(C)
            /\ \A i \in 1..Len(C) :
                  /\ messages[i].role = C[i].role
                  /\ messages[i].content = SelectSeq(C[i].content, LAMBDA b : ~IsOrphan(b, C))
                  /\ \A j \in 1..Len(messages[i].content) : ~IsOrphan(messages[i].content[j], C)
            /\ Range(metadata.proactiveRemovedIds) =
                  UNION { { C[i].content[j].tool_use_id :
                              j \in { n \in 1..Len(C[i].content) : IsOrphan(C[i].content[n], C) } } :
                          i \in 1..Len(C) }
            /\ Cardinality(Range(metadata.proactiveRemovedIds)) = Len(metadata.proactiveRemovedIds)
            /\ hadProactiveCleanup = (metadata.proactiveRemovedIds # <<>>)
            /\ sent = <<JSONStringify(messages)>>
            /\ \A k \in 1..Len(sent[1]) :
                  (k > 1 /\ sent[1][k - 1] = "tool_result") => sent[1][k] \in DeclaredIds(C)

C13_Witness ==
    /\ pc = "fetch"
    /\ site = "first"
    /\ Len(request.messages) = 2
    /\ request.messages[1].content = <<ToolResult("toolu_X"), ToolResult("toolu_A")>>
    /\ request.messages[2].content = <<ToolUse("toolu_A"), ToolResult("toolu_X")>>
    /\ messages[1].content = <<ToolResult("toolu_A")>>
    /\ messages[2].content = <<ToolUse("toolu_A")>>
    /\ metadata.proactiveRemovedIds = <<"toolu_X">>

(***************************************************************************)
(* Strings of the identity normalizer.  A string is a sequence of          *)
(* characters; a flag name that the code never looks into stands as one    *)
(* character.  An optional string (a header that may be absent, a value    *)
(* that may be null) is a record.                                          *)
(***************************************************************************)
Absent == [present |-> FALSE, value |-> <<>>]
Present(str) == [present |-> TRUE, value |-> str]

\* x ?? ''
OrEmpty(opt) == IF opt.present THEN opt.value ELSE <<>>

\* String.prototype.split(sep): the pieces between the separators, empty ones included
RECURSIVE Split(_, _)
Split(str, sep) ==
    IF \A k \in 1..Len(str) : str[k] # sep
    THEN <<str>>
    ELSE LET k == CHOOSE n \in 1..Len(str) :
                      str[n] = sep /\ \A j \in 1..(n - 1) : str[j] # sep
         IN  <<SubSeq(str, 1, k - 1)>> \o Split(SubSeq(str, k + 1, Len(str)), sep)

RECURSIVE TrimStart(_)
TrimStart(str) ==
    IF str # <<>> /\ Head(str) = " " THEN TrimStart(Tail(str)) ELSE str

RECURSIVE TrimEnd(_)
TrimEnd(str) ==
    IF str # <<>> /\ str[Len(str)] = " " THEN TrimEnd(SubSeq(str, 1, Len(str) - 1)) ELSE str

\* String.prototype.trim()
Trim(str) == TrimEnd(TrimStart(str))

\* Array.prototype.join(sep)
RECURSIVE Join(_, _)
Join(list, sep) ==
    IF list = <<>> THEN <<>>
    ELSE IF Len(list) = 1 THEN list[1]
    ELSE list[1] \o <<sep>> \o Join(Tail(list), sep)

MutMergeBetaFlags(existing, required) == Join(Distinct(required), ",")

\* request-normalizer.ts:179-187; a Set lists its members in insertion order
mergeBetaFlags(existing, required) ==
    LET tokens == Split(OrEmpty(existing), ",")
        trimmed == [k \in 1..Len(tokens) |-> Trim(tokens[k])]
        presentFlags == Distinct(SelectSeq(trimmed, LAMBDA f : Len(f) > 0) \o required)
    IN  Join(presentFlags, ",")

(***************************************************************************)
(* mergeBetaFlags on its own: every header value of up to MaxHeaderLen     *)
(* characters (or no header) against every list of up to MaxRequired       *)
(* required flags.                                                         *)
(***************************************************************************)
MaxHeaderLen == 4
MaxRequired == 2

HeaderChars == {",", " ", "a", "b"}

HeaderValues ==
    {Absent} \cup
    UNION { { Present(str) : str \in [1..n -> HeaderChars] } : n \in 0..MaxHeaderLen }

RequiredFlags == {<<"a">>, <<"c">>}

RequiredLists == UNION { [1..n -> RequiredFlags] : n \in 0..MaxRequired }

\* the orchestrator's variables, at rest while a single function is studied
Idle == \E req \in {[kind |-> "no_body", messages |-> <<>>]} : Entered(req, [contentLength |-> FALSE])

InitMerge ==
    /\ Idle
    /\ fnInput \in [existing : HeaderValues, required : RequiredLists]
    /\ fnOutput = <<>>
    /\ fnStage = 0
    /\ Alone

orchVars ==
    <<request, pc, site, bodyText, messages, cleanedBodyText, hadProactiveCleanup,
      metadata, response, attempt, returnedAt, client, fetches, sent,
      sleeps, overloads, repairs, failedAt, received,
      clientHeaders, headers, sentHeaders, cancelled, moduleState, invocations>>

MergeBetaFlags ==
    /\ fnStage = 0
    /\ fnOutput' = <<mergeBetaFlags(fnInput.existing, fnInput.required)>>
    /\ fnStage' = 1
    /\ UNCHANGED fnInput
    /\ UNCHANGED orchVars

NextMerge == MergeBetaFlags

SpecMerge == InitMerge /\ [][NextMerge]_vars

\* the flags a header value lists
FlagsOf(str) == IF str = <<>> THEN <<>> ELSE Split(str, ",")

\* the non-empty trimmed flags of the incoming header, in order
ClientFlags(existing) ==
    LET tokens == Split(OrEmpty(existing), ",")
    IN  SelectSeq([k \in 1..Len(tokens) |-> Trim(tokens[k])], LAMBDA f : f # <<>>)

(***************************************************************************)
(* C14.  mergeBetaFlags(H, R) contains every non-empty trimmed flag of H   *)
(* and every flag of R, contains no duplicates, and lists the client's     *)
(* flags first, in their original order, followed by the missing required  *)
(* flags in rule-declaration order.                                        *)
(***************************************************************************)
C14_MergeBetaFlags ==
    fnStage = 1 =>
        LET H == ClientFlags(fnInput.existing)
            R == fnInput.required
            L == FlagsOf(fnOutput[1])
            firstOf(s, f) == CHOOSE k \in 1..Len(s) : s[k] = f /\ \A j \in 1..(k - 1) : s[j] # f
        IN  /\ \A k \in 1..Len(H) : H[k] \in Range(L)
            /\ \A k \in 1..Len(R) : R[k] \in Range(L)
            /\ \A k \in 1..Len(L) : L[k] \in Range(H) \cup Range(R)
            /\ \A j, k \in 1..Len(L) : L[j] = L[k] => j = k
            /\ \A j, k \in 1..Len(L) :
                  j < k =>
                     \/ L[j] \in Range(H) /\ L[k] \notin Range(H)
                     \/ L[j] \in Range(H) /\ L[k] \in Range(H) /\ firstOf(H, L[j]) < firstOf(H, L[k])
                     \/ L[j] \notin Range(H) /\ L[k] \notin Range(H) /\ firstOf(R, L[j]) < firstOf(R, L[k])

C14_Witness ==
    /\ fnStage = 1
    /\ fnInput.existing = Present(<<"b", ",", ",", " ">>)
    /\ fnInput.required = <<<<"c">>, <<"a">>>>
    /\ fnOutput[1] = <<"b", ",", "c", ",", "a">>

(***************************************************************************)
(* The identity normalizer (request-normalizer.ts).  A Headers object is a *)
(* function from lower-case header names to optional strings.  A text is a *)
(* string whose characters are the pieces the code tells apart.            *)
(***************************************************************************)
\* claude-code-identity.ts:14
BILLING_HEADER_TEXT == <<>>

\* request-normalizer.ts:143
IDENTITY_PREFIX == "You are Claude Code, Anthropic's official CLI for Claude"

\* claude-code-identity.ts:17
IDENTITY_TEXT == <<IDENTITY_PREFIX, ", running within the Claude Agent SDK.">>

\* claude-code-identity.ts:21
SYSTEM_INSTRUCTIONS_TEXT == <<"You are an interactive CLI tool ...">>

\* claude-code-identity.ts:31
CLAUDE_CODE_TOOLS == <<"Task", "Bash">>

\* the billing-envelope sentinel (request-normalizer.ts:252)
BillingSentinel == "x-anthropic-billing-header"

\* the CLI-exclusive beta flag (request-normalizer.ts:244)
CliBetaFlag == "claude-code-20250219"

\* the number of UTF-16 units of a text: only the comparison with 5000
\* (request-normalizer.ts:467) matters
TextLength(str) ==
    IF \E k \in 1..Len(str) : str[k] \in {"You are an interactive CLI tool ...", "<a long client prompt>"}
    THEN 10000 ELSE 100

\* request-normalizer.ts:50-95
MODEL_RULES ==
    << [keyword |-> "haiku",
        requiredBetaFlags |-> << <<"interleaved-thinking-2025-05-14">>,
                                 <<"prompt-caching-scope-2026-01-05">> >>,
        thinking |-> "undefined", removeTemperature |-> FALSE,
        requireClaudeCodeIdentity |-> FALSE],
       [keyword |-> "sonnet",
        requiredBetaFlags |-> << <<"claude-code-20250219">>,
                                 <<"interleaved-thinking-2025-05-14">>,
                                 <<"prompt-caching-scope-2026-01-05">>,
                                 <<"effort-2025-11-24">>,
                                 <<"adaptive-thinking-2026-01-28">> >>,
        thinking |-> "adaptive", removeTemperature |-> TRUE,
        requireClaudeCodeIdentity |-> TRUE],
       [keyword |-> "opus",
        requiredBetaFlags |-> << <<"claude-code-20250219">>,
                                 <<"interleaved-thinking-2025-05-14">>,
                                 <<"prompt-caching-scope-2026-01-05">>,
                                 <<"effort-2025-11-24">>,
                                 <<"adaptive-thinking-2026-01-28">> >>,
        thinking |-> "adaptive", removeTemperature |-> TRUE,
        requireClaudeCodeIdentity |-> TRUE] >>

NoRule ==
    [keyword |-> "", requiredBetaFlags |-> <<>>, thinking |-> "undefined",
     removeTemperature |-> FALSE, requireClaudeCodeIdentity |-> FALSE]

\* request-normalizer.ts:101-116, with the keys in lower case
CLAUDE_CODE_HEADERS ==
    << <<"accept", <<"application/json">> >>,
       <<"accept-encoding", <<"gzip, deflate, br, zstd">> >>,
       <<"user-agent", <<"claude-cli/", "2.1.59 (external, sdk-ts)">> >>,
       <<"x-stainless-arch", <<"x64">> >>,
       <<"x-stainless-lang", <<"js">> >>,
       <<"x-stainless-os", <<"Windows">> >>,
       <<"x-stainless-package-version", <<"0.74.0">> >>,
       <<"x-stainless-retry-count", <<"0">> >>,
       <<"x-stainless-runtime", <<"node">> >>,
       <<"x-stainless-runtime-version", <<"v24.3.0">> >>,
       <<"x-stainless-timeout", <<"600">> >>,
       <<"anthropic-dangerous-direct-browser-access", <<"true">> >>,
       <<"anthropic-version", <<"2023-06-01">> >>,
       <<"x-app", <<"cli">> >> >>

\* request-normalizer.ts:123-129
PROTOCOL_CRITICAL_HEADERS ==
    {"accept", "accept-encoding", "anthropic-dangerous-direct-browser-access",
     "anthropic-version", "x-app"}

\* request-normalizer.ts:266-277
BROWSER_FINGERPRINT_HEADERS ==
    <<"sec-ch-ua", "sec-ch-ua-platform", "sec-ch-ua-mobile", "sec-fetch-site",
      "sec-fetch-mode", "sec-fetch-dest", "accept-language", "priority",
      "origin", "referer">>

\* the runtime fingerprint headers of the table: user-agent and X-Stainless-*
FingerprintHeaders ==
    { CLAUDE_CODE_HEADERS[k][1] : k \in 1..Len(CLAUDE_CODE_HEADERS) } \ PROTOCOL_CRITICAL_HEADERS

HeaderNames ==
    { CLAUDE_CODE_HEADERS[k][1] : k \in 1..Len(CLAUDE_CODE_HEADERS) }
      \cup Range(BROWSER_FINGERPRINT_HEADERS)
      \cup {"anthropic-beta", "x-api-key", "authorization", "content-length"}

\* String.prototype.toLowerCase(), on the pieces of a model name
ToLowerCase(str) ==
    [k \in 1..Len(str) |->
        CASE str[k] = "Sonnet" -> "sonnet"
          [] str[k] = "Opus" -> "opus"
          [] str[k] = "Haiku" -> "haiku"
          [] str[k] = "AnyRouter.top" -> "anyrouter.top"
          [] OTHER -> str[k]]

\* String.prototype.includes(piece)
Includes(str, piece) == \E k \in 1..Len(str) : str[k] = piece

\* String.prototype.startsWith(piece)
StartsWith(str, piece) == str # <<>> /\ str[1] = piece

\* request-normalizer.ts:149-151
isAnyrouterTarget(host) == Includes(ToLowerCase(host), "anyrouter.top")

MutFindMatchingRule(model) ==
    LET lower == ToLowerCase(model)
        hits == { k \in 1..Len(MODEL_RULES) : Includes(lower, MODEL_RULES[k].keyword) }
    IN  IF hits = {} THEN NoRule
        ELSE MODEL_RULES[CHOOSE k \in hits : \A j \in hits : k >= j]

\* request-normalizer.ts:153-156
findMatchingRule(model) ==
    LET lower == ToLowerCase(model)
        hits == { k \in 1..Len(MODEL_RULES) : Includes(lower, MODEL_RULES[k].keyword) }
    IN  IF hits = {} THEN NoRule
        ELSE MODEL_RULES[CHOOSE k \in hits : \A j \in hits : k <= j]

\* a system block: a text block, with or without cache_control
SystemBlock(text, cached) == [type |-> "text", text |-> text, cache_control |-> cached]

\* body.system: absent, a string, an array of blocks, or a single block object
NoSystem == [kind |-> "absent", text |-> <<>>, blocks |-> <<>>]
SystemString(text) == [kind |-> "string", text |-> text, blocks |-> <<>>]
SystemArray(blocks) == [kind |-> "array", text |-> <<>>, blocks |-> blocks]
SystemObject(block) == [kind |-> "object", text |-> <<>>, blocks |-> <<block>>]

\* request-normalizer.ts:198-207
normalizeSystemToArray(system) ==
    IF system.kind = "array" THEN system.blocks
    ELSE IF system.kind = "string" /\ Len(Trim(system.text)) > 0
         THEN <<SystemBlock(system.text, FALSE)>>
    ELSE IF system.kind = "object" THEN system.blocks
    ELSE <<>>

\* request-normalizer.ts:210-212
hasClaudeCodeIdentity(block) == StartsWith(block.text, IDENTITY_PREFIX)

\* /^user_[a-f0-9]+_account__session_[0-9a-f-]{36}$/ (request-normalizer.ts:132)
\* on a user_id made of four pieces
HexStrings == {"9f3c2a", "0b7d41"}
Uuids == {"3f1c...-36", "a2b4...-36"}
CLAUDE_CODE_USER_ID_PATTERN(str) ==
    /\ Len(str) = 4
    /\ str[1] = "user_"
    /\ str[2] \in HexStrings
    /\ str[3] = "_account__session_"
    /\ str[4] \in Uuids

\* request-normalizer.ts:215-219: what buildClaudeCodeUserId can return
GeneratedUserIds ==
    { <<"user_", "9f3c2a", "_account__session_", u>> : u \in Uuids }

\* body.metadata: absent, an object (with or without a string user_id), or an array
NoMetadata == [kind |-> "absent", user_id |-> Absent]
MetadataRecord(uid) == [kind |-> "record", user_id |-> uid]
MetadataArray == [kind |-> "array", user_id |-> Absent]

\* body.tools: absent, an array, or another value
NoTools == [kind |-> "absent", items |-> <<>>]
ToolsArray(items) == [kind |-> "array", items |-> items]
ToolsOther == [kind |-> "other", items |-> <<>>]

\* request-normalizer.ts:236-259
isClaudeCodeCliRequest(hdrs, bodyObj) ==
    LET tokens == Split(OrEmpty(hdrs["anthropic-beta"]), ",")
        betaFlags == [k \in 1..Len(tokens) |-> Trim(tokens[k])]
        systemArray == normalizeSystemToArray(bodyObj.system)
    IN  IF \E k \in 1..Len(betaFlags) : betaFlags[k] = <<CliBetaFlag>> THEN TRUE
        ELSE IF Len(systemArray) > 0 /\ Includes(systemArray[1].text, BillingSentinel) THEN TRUE
        ELSE StartsWith(OrEmpty(hdrs["user-agent"]), "claude-cli/")

\* request-normalizer.ts:279-283
stripBrowserHeaders(hdrs) ==
    [n \in HeaderNames |-> IF n \in Range(BROWSER_FINGERPRINT_HEADERS) THEN Absent ELSE hdrs[n]]

MutIsSetFromTable(hdrs, lowerKey, overwriteAll) == overwriteAll \/ ~hdrs[lowerKey].present

\* request-normalizer.ts:300, the test of applyClaudeCodeHeaders
IsSetFromTable(hdrs, lowerKey, overwriteAll) ==
    overwriteAll \/ lowerKey \in PROTOCOL_CRITICAL_HEADERS \/ ~hdrs[lowerKey].present

\* request-normalizer.ts:297-304
applyClaudeCodeHeaders(hdrs, overwriteAll) ==
    [n \in HeaderNames |->
        LET rows == { k \in 1..Len(CLAUDE_CODE_HEADERS) : CLAUDE_CODE_HEADERS[k][1] = n }
        IN  IF rows # {} /\ IsSetFromTable(hdrs, n, overwriteAll)
            THEN Present(CLAUDE_CODE_HEADERS[CHOOSE k \in rows : TRUE][2])
            ELSE hdrs[n]]

\* a string is truthy unless it is empty; null is falsy
Truthy(opt) == opt.present /\ opt.value # <<>>

\* request-normalizer.ts:399-405
NormalizeAuth(hdrs) ==
    LET apiKey == hdrs["x-api-key"]
    IN  IF Truthy(apiKey) /\ ~Truthy(hdrs["authorization"])
        THEN [hdrs EXCEPT !["authorization"] = Present(<<"Bearer ">> \o apiKey.value),
                          !["x-api-key"] = Absent]
        ELSE hdrs

\* request-normalizer.ts:576
DEFAULT_MAX_TOKENS == 32000

\* an optional number
NoNumber == [present |-> FALSE, value |-> 0]
Number(n) == [present |-> TRUE, value |-> n]

\* request-normalizer.ts:422, 512
hasBilling == Len(BILLING_HEADER_TEXT) > 0

\* request-normalizer.ts:423-427
identityBlock == SystemBlock(IDENTITY_TEXT, TRUE)

\* request-normalizer.ts:428-432
instructionsBlock == SystemBlock(SYSTEM_INSTRUCTIONS_TEXT, TRUE)

billingBlock == SystemBlock(BILLING_HEADER_TEXT, FALSE)

\* request-normalizer.ts:435-437
canonicalPrefix ==
    IF hasBilling THEN <<billingBlock, identityBlock, instructionsBlock>>
    ELSE <<identityBlock, instructionsBlock>>

\* request-normalizer.ts:439-485: body.system on the CLI path
CliSystem(system) ==
    LET systemArray == normalizeSystemToArray(system)
    IN  IF Len(systemArray) = 0 THEN canonicalPrefix
        ELSE IF Includes(systemArray[1].text, BillingSentinel)
        THEN IF Len(systemArray) >= 2
             THEN [systemArray EXCEPT ![2].cache_control = TRUE]
             ELSE systemArray
        ELSE IF hasClaudeCodeIdentity(systemArray[1])
        THEN LET marked == [systemArray EXCEPT ![1].cache_control = TRUE]
                 hasInstructions ==
                     \E k \in 2..Len(marked) : TextLength(marked[k].text) > 5000
             IN  IF hasBilling
                 THEN IF hasInstructions THEN <<billingBlock>> \o marked
                      ELSE <<billingBlock>> \o marked \o <<instructionsBlock>>
                 ELSE IF hasInstructions THEN marked
                      ELSE marked \o <<instructionsBlock>>
        ELSE canonicalPrefix \o systemArray

\* request-normalizer.ts:527-537: body.system on the generic path
GenericSystem(system) ==
    LET systemArray == normalizeSystemToArray(system)
        alreadyHasIdentity == \E k \in 1..Len(systemArray) : hasClaudeCodeIdentity(systemArray[k])
    IN  IF alreadyHasIdentity THEN systemArray
        ELSE IF Len(systemArray) > 0 THEN canonicalPrefix \o systemArray
        ELSE canonicalPrefix

\* request-normalizer.ts:487-490, 541-544
InjectTools(tools) ==
    IF tools.kind # "array" \/ Len(tools.items) = 0
    THEN ToolsArray(CLAUDE_CODE_TOOLS)
    ELSE tools

\* request-normalizer.ts:492-497, 546-551; newUserId is what
\* buildClaudeCodeUserId returns when it is called
EnforceUserId(md, newUserId) ==
    LET copy == IF md.kind = "record" THEN md ELSE MetadataRecord(Absent)
    IN  IF ~copy.user_id.present \/ ~CLAUDE_CODE_USER_ID_PATTERN(copy.user_id.value)
        THEN MetadataRecord(Present(newUserId))
        ELSE copy

\* request-normalizer.ts:556-574: the body of a model that needs no identity
LenientBody(bodyObj) ==
    LET hasValidSystem ==
            \/ bodyObj.system.kind = "array" /\ Len(bodyObj.system.blocks) > 0
            \/ bodyObj.system.kind = "string" /\ Len(Trim(bodyObj.system.text)) > 0
    IN  [bodyObj EXCEPT
            !.system = IF hasValidSystem THEN @
                       ELSE SystemArray(<<[type |-> "text", text |-> IDENTITY_TEXT,
                                           cache_control |-> FALSE]>>),
            !.tools = IF @.kind # "array" THEN ToolsArray(<<>>) ELSE @,
            !.metadata = IF @.kind = "absent"
                         THEN MetadataRecord(Present(<<"normalized-request">>))
                         ELSE @]

MutEnsureMaxTokens(bodyObj) == [bodyObj EXCEPT !.max_tokens = Number(DEFAULT_MAX_TOKENS)]

\* request-normalizer.ts:575-577; step 6 (407-410) is a comment: no step
\* assigns body.stream
EnsureMaxTokens(bodyObj) ==
    IF ~bodyObj.max_tokens.present \/ bodyObj.max_tokens.value = 0
    THEN [bodyObj EXCEPT !.max_tokens = Number(DEFAULT_MAX_TOKENS)]
    ELSE bodyObj

\* a body text: the text the client sent for a body, or JSON.stringify of one
ClientText(body) == [stringified |-> FALSE, of |-> body]
Stringified(body) == [stringified |-> TRUE, of |-> body]

\* what normalizeRequest returns when a guard fails (request-normalizer.ts:345-363)
Untouched(hdrs, body, text) ==
    [headers |-> hdrs, body |-> body, bodyText |-> text, normalized |-> FALSE]

\* request-normalizer.ts:369
IsOriginalCliRequest(hdrs) == StartsWith(OrEmpty(hdrs["user-agent"]), "claude-cli/")

MutDetectCli(rule, hdrs, bodyObj) == TRUE

\* request-normalizer.ts:375-377
DetectCli(rule, hdrs, bodyObj) ==
    IF rule.requireClaudeCodeIdentity THEN isClaudeCodeCliRequest(hdrs, bodyObj) ELSE FALSE

\* request-normalizer.ts:336-588
normalizeRequest(targetHost, hdrs, body, text, newUserId) ==
    IF ~isAnyrouterTarget(targetHost) THEN Untouched(hdrs, body, text)
    ELSE IF body.kind # "object" THEN Untouched(hdrs, body, text)
    ELSE IF ~body.model.present THEN Untouched(hdrs, body, text)
    ELSE IF findMatchingRule(body.model.value) = NoRule THEN Untouched(hdrs, body, text)
    ELSE
        LET rule == findMatchingRule(body.model.value)
            isOriginalCliRequest == IsOriginalCliRequest(hdrs)
            isCli == DetectCli(rule, hdrs, body)
            \* 1
            h1 == [hdrs EXCEPT !["anthropic-beta"] =
                      Present(mergeBetaFlags(hdrs["anthropic-beta"], rule.requiredBetaFlags))]
            \* 2, 3
            b2 == [body EXCEPT !.thinking = IF rule.thinking # "undefined" THEN rule.thinking ELSE "absent"]
            b3 == IF rule.removeTemperature THEN [b2 EXCEPT !.temperature = "absent"] ELSE b2
            \* 4
            h4 == applyClaudeCodeHeaders(stripBrowserHeaders(h1), ~isOriginalCliRequest)
            \* 5
            h5 == NormalizeAuth(h4)
            \* 7
            b7 == IF rule.requireClaudeCodeIdentity /\ isCli
                  THEN [b3 EXCEPT !.system = SystemArray(CliSystem(@)),
                                  !.tools = InjectTools(@),
                                  !.metadata = EnforceUserId(@, newUserId)]
                  ELSE IF rule.requireClaudeCodeIdentity /\ ~isCli
                  THEN [b3 EXCEPT !.system = SystemArray(GenericSystem(@)),
                                  !.tools = InjectTools(@),
                                  !.metadata = EnforceUserId(@, newUserId)]
                  ELSE LenientBody(b3)
            b8 == EnsureMaxTokens(b7)
            \* 8
            h8 == [h5 EXCEPT !["content-length"] = Absent]
        IN  [headers |-> h8, body |-> b8, bodyText |-> Stringified(b8), normalized |-> TRUE]

(***************************************************************************)
(* normalizeRequest on its own: proxyRequest calls it once per request     *)
(* (proxy.ts:240); a second application, to what the first returned, is    *)
(* what idempotence speaks of.                                             *)
(***************************************************************************)
UserAgents ==
    { Absent,
      Present(<<"Mozilla/5.0">>),
      Present(<<"claude-cli/", "2.0.14 (external, cli)">>) }

BetaValues ==
    { Absent,
      Present(<<"context-1m-2025-08-07">>),
      Present(<<" ", "claude-code-20250219", " ", ",", "context-1m-2025-08-07">>) }

ApiKeys == { Absent, Present(<<"sk-key">>) }

Authorizations ==
    { Absent, Present(<<"Bearer ", "tok">>), Present(<<"Basic ", "dXNlcg==">>) }

\* what else the client sends: nothing, what a browser adds, what an SDK adds
HeaderProfiles == {"bare", "browser", "sdk"}

ClientHeaders(ua, beta, key, auth, profile) ==
    [n \in HeaderNames |->
        CASE n = "user-agent" -> ua
          [] n = "anthropic-beta" -> beta
          [] n = "x-api-key" -> key
          [] n = "authorization" -> auth
          [] n = "content-length" ->
                IF profile = "bare" THEN Absent ELSE Present(<<"42">>)
          [] n \in Range(BROWSER_FINGERPRINT_HEADERS) ->
                IF profile = "browser" THEN Present(<<"browser">>) ELSE Absent
          [] n \in {"accept", "anthropic-version"} ->
                IF profile = "browser" THEN Present(<<"*/*">>) ELSE Absent
          [] n \in FingerprintHeaders \ {"user-agent"} ->
                IF profile = "sdk" THEN Present(<<"sdk-py">>) ELSE Absent
          [] OTHER -> Absent]

ClientHeaderSets ==
    { ClientHeaders(ua, beta, key, auth, profile) :
        ua \in UserAgents, beta \in BetaValues, key \in ApiKeys,
        auth \in Authorizations, profile \in HeaderProfiles }

ModelNames ==
    { <<"claude-", "Sonnet", "-4-5">>, <<"claude-", "opus", "-4">>,
      <<"claude-3-5-", "haiku">>, <<"gpt-4o">> }

ClientBlock == SystemBlock(<<"You are a helpful assistant.">>, FALSE)

SystemValues ==
    { NoSystem,
      SystemString(<<" ">>),
      SystemString(<<"You are a helpful assistant.">>),
      SystemObject(ClientBlock),
      SystemArray(<<ClientBlock>>),
      SystemArray(<<SystemBlock(<<BillingSentinel, ": cc_version=2.1.45">>, FALSE),
                    SystemBlock(<<IDENTITY_PREFIX, ".">>, FALSE)>>),
      SystemArray(<<SystemBlock(<<IDENTITY_PREFIX, ".">>, FALSE)>>),
      SystemArray(<<SystemBlock(IDENTITY_TEXT, TRUE),
                    SystemBlock(<<"<a long client prompt>">>, FALSE)>>),
      SystemArray(<<ClientBlock, SystemBlock(IDENTITY_TEXT, FALSE)>>) }

\* the rest of the body: nothing, everything well-formed, everything present but unusable
BodyProfiles == {"bare", "full", "odd"}

ClientBody(model, system, profile) ==
    [kind |-> "object",
     model |-> model,
     system |-> system,
     tools |-> CASE profile = "bare" -> NoTools
                 [] profile = "full" -> ToolsArray(<<"get_weather">>)
                 [] OTHER -> ToolsArray(<<>>),
     metadata |-> CASE profile = "bare" -> NoMetadata
                    [] profile = "full" ->
                          MetadataRecord(Present(<<"user_", "0b7d41", "_account__session_", "a2b4...-36">>))
                    [] OTHER -> MetadataRecord(Present(<<"user-42">>)),
     max_tokens |-> CASE profile = "bare" -> NoNumber
                      [] profile = "full" -> Number(1024)
                      [] OTHER -> Number(0),
     thinking |-> IF profile = "full" THEN "enabled" ELSE "absent",
     temperature |-> IF profile = "bare" THEN "absent" ELSE "0.7",
     stream |-> CASE profile = "bare" -> "absent"
                  [] profile = "full" -> "true"
                  [] OTHER -> "false"]

ClientBodies ==
    { ClientBody(Present(m), s, p) : m \in ModelNames, s \in SystemValues, p \in BodyProfiles }

\* requests on which a guard of normalizeRequest fails for another reason
\* than the model name
GuardedInputs ==
    { [targetHost |-> <<"api.anthropic.com">>, headers |-> h,
       body |-> ClientBody(Present(<<"claude-", "opus", "-4">>), NoSystem, "bare")] :
         h \in { ClientHeaders(ua, Absent, Absent, Absent, "browser") : ua \in UserAgents } }
      \cup
    { [targetHost |-> <<"AnyRouter.top">>, headers |-> h, body |-> b] :
         h \in { ClientHeaders(ua, Absent, Absent, Absent, "browser") : ua \in UserAgents },
         b \in { [ClientBody(Absent, NoSystem, "bare") EXCEPT !.kind = "array"],
                 ClientBody(Absent, NoSystem, "full") } }

\* requests that try each guard: hosts in other cases and with more around
\* the name, bodies that are not objects, model names holding no keyword,
\* one, or several
ActivationInputs ==
    { [targetHost |-> host, headers |-> h, body |-> b] :
         host \in { <<"AnyRouter.top">>, <<"api.", "anyrouter.top", ":8443">>,
                    <<"api.anthropic.com">> },
         h \in { ClientHeaders(ua, Absent, Absent, Absent, "browser") : ua \in UserAgents },
         b \in { ClientBody(Present(m), NoSystem, "full") :
                    m \in { <<"claude-", "haiku", "-or-", "sonnet">>, <<"Opus", "/", "Sonnet">>,
                            <<"sonnet", "-", "Haiku">>, <<"claude-", "opus", "-4">>,
                            <<"gpt-4o">> } }
                 \cup { [ClientBody(Present(<<"claude-", "opus", "-4">>), NoSystem, "full")
                            EXCEPT !.kind = k] : k \in {"null", "array", "string", "number"} }
                 \cup { ClientBody(Absent, NoSystem, "full") } }

NormalizerInputs ==
    [targetHost : {<<"anyrouter.top">>}, headers : ClientHeaderSets, body : ClientBodies]
      \cup GuardedInputs \cup ActivationInputs

InitNormalize ==
    /\ Idle
    /\ fnInput \in NormalizerInputs
    /\ fnOutput = <<>>
    /\ fnStage = 0
    /\ Alone

\* proxy.ts:240
NormalizeRequest ==
    /\ fnStage = 0
    /\ \E newUserId \in GeneratedUserIds :
          fnOutput' = <<normalizeRequest(fnInput.targetHost, fnInput.headers,
                                         fnInput.body, ClientText(fnInput.body), newUserId)>>
    /\ fnStage' = 1
    /\ UNCHANGED fnInput
    /\ UNCHANGED orchVars

\* normalizeRequest applied to a request that is already normalized
NormalizeAgain ==
    /\ fnStage = 1
    /\ fnOutput[1].normalized
    /\ \E newUserId \in GeneratedUserIds :
          fnOutput' = Append(fnOutput,
                             normalizeRequest(fnInput.targetHost, fnOutput[1].headers,
                                              fnOutput[1].body, fnOutput[1].bodyText, newUserId))
    /\ fnStage' = 2
    /\ UNCHANGED fnInput
    /\ UNCHANGED orchVars

NextNormalize == NormalizeRequest \/ NormalizeAgain

SpecNormalize == InitNormalize /\ [][NextNormalize]_vars

\* normalizeRequest has been applied to the client's request and took effect
Normalized == fnStage >= 1 /\ fnOutput[1].normalized

\* the three signs of a CLI caller, on the client's request
CliUserAgent == StartsWith(OrEmpty(fnInput.headers["user-agent"]), "claude-cli/")
CliBeta ==
    \E k \in 1..Len(ClientFlags(fnInput.headers["anthropic-beta"])) :
        ClientFlags(fnInput.headers["anthropic-beta"])[k] = <<CliBetaFlag>>
CliSentinel ==
    /\ normalizeSystemToArray(fnInput.body.system) # <<>>
    /\ Includes(normalizeSystemToArray(fnInput.body.system)[1].text, BillingSentinel)

\* the value the table gives a header
TableValue(n) ==
    CLAUDE_CODE_HEADERS[CHOOSE k \in 1..Len(CLAUDE_CODE_HEADERS) : CLAUDE_CODE_HEADERS[k][1] = n][2]

(***************************************************************************)
(* C15.  Normalization is idempotent: for every request that activates the *)
(* normalizer, normalizeRequest applied to the normalized headers and body *)
(* returns an equal body (so an equal serialization) and an equal header   *)
(* set.                                                                    *)
(***************************************************************************)
C15_Idempotent ==
    fnStage = 2 =>
        /\ fnOutput[2].normalized
        /\ fnOutput[2].body = fnOutput[1].body
        /\ fnOutput[2].headers = fnOutput[1].headers

(***************************************************************************)
(* C16.  When isCli holds (user-agent starts with claude-cli/, or the      *)
(* incoming anthropic-beta lists claude-code-20250219, or the first system *)
(* block holds the billing sentinel) the normalizer leaves every           *)
(* user-agent and X-Stainless-* value the client supplied untouched;       *)
(* otherwise it overwrites them with the values of the table.              *)
(***************************************************************************)
C16_FingerprintPreservedForCli ==
    Normalized =>
        IF CliUserAgent \/ CliBeta \/ CliSentinel
        THEN \A n \in FingerprintHeaders :
                fnInput.headers[n].present => fnOutput[1].headers[n] = fnInput.headers[n]
        ELSE \A n \in FingerprintHeaders :
                fnOutput[1].headers[n] = Present(TableValue(n))

(***************************************************************************)
(* C17.  In the headers normalizeRequest returns for a request that        *)
(* activates it, every header of the browser-fingerprint blocklist is      *)
(* absent, every protocol-critical identity header is present with the     *)
(* value of the table, and content-length is absent.                       *)
(***************************************************************************)
C17_HeaderHygiene ==
    Normalized =>
        /\ \A k \in 1..Len(BROWSER_FINGERPRINT_HEADERS) :
              ~fnOutput[1].headers[BROWSER_FINGERPRINT_HEADERS[k]].present
        /\ \A n \in {"accept", "accept-encoding", "anthropic-dangerous-direct-browser-access",
                     "anthropic-version", "x-app"} :
              fnOutput[1].headers[n] = Present(TableValue(n))
        /\ ~fnOutput[1].headers["content-length"].present

C17_Witness ==
    /\ Normalized
    /\ CliUserAgent
    /\ fnInput.headers["origin"].present
    /\ fnInput.headers["accept"] = Present(<<"*/*">>)
    /\ fnInput.headers["content-length"].present
    /\ fnOutput[1].headers["accept"] = Present(<<"application/json">>)
    /\ ~fnOutput[1].headers["origin"].present

\* the request of a generic client for a model that requires the identity
GenericSpoofCase ==
    /\ Normalized
    /\ ~CliUserAgent
    /\ ~CliBeta
    /\ \A k \in 1..Len(normalizeSystemToArray(fnInput.body.system)) :
          ~Includes(normalizeSystemToArray(fnInput.body.system)[k].text, BillingSentinel)
    /\ findMatchingRule(fnInput.body.model.value).requireClaudeCodeIdentity

\* some system block of the client already starts with the identity prefix
ClientHasIdentity ==
    \E k \in 1..Len(normalizeSystemToArray(fnInput.body.system)) :
        StartsWith(normalizeSystemToArray(fnInput.body.system)[k].text, IDENTITY_PREFIX)

SpoofedHeadersAndUserId ==
    /\ fnOutput[1].headers["user-agent"] = Present(<<"claude-cli/", "2.1.59 (external, sdk-ts)">>)
    /\ Includes(Split(fnOutput[1].headers["anthropic-beta"].value, ","), <<CliBetaFlag>>)
    /\ fnOutput[1].body.metadata.kind = "record"
    /\ fnOutput[1].body.metadata.user_id.present
    /\ CLAUDE_CODE_USER_ID_PATTERN(fnOutput[1].body.metadata.user_id.value)

(***************************************************************************)
(* C18, as stated.  For a request with a non-CLI user-agent, no CLI beta   *)
(* flag and no billing sentinel whose model requires the identity, the     *)
(* generic path is taken although the merge injects claude-code-20250219:  *)
(* user-agent is overwritten with the canonical CLI value, body.system is  *)
(* [identityBlock, instructionsBlock, ...the client's blocks in order],    *)
(* and body.metadata.user_id matches the CLI user-id pattern.              *)
(***************************************************************************)
C18_GenericSpoof ==
    GenericSpoofCase =>
        /\ SpoofedHeadersAndUserId
        /\ fnOutput[1].body.system =
              SystemArray(<<identityBlock, instructionsBlock>>
                            \o normalizeSystemToArray(fnInput.body.system))

(***************************************************************************)
(* C18, amended.  As stated, except that when a system block of the client *)
(* already starts with the identity prefix, body.system is the client's    *)
(* blocks in array form, unchanged, with nothing prepended.                *)
(***************************************************************************)
C18_GenericSpoofAmended ==
    GenericSpoofCase =>
        /\ SpoofedHeadersAndUserId
        /\ fnOutput[1].body.system =
              IF ClientHasIdentity
              THEN SystemArray(normalizeSystemToArray(fnInput.body.system))
              ELSE SystemArray(<<identityBlock, instructionsBlock>>
                                 \o normalizeSystemToArray(fnInput.body.system))

C18_Witness ==
    /\ GenericSpoofCase
    /\ fnInput.headers["user-agent"] = Present(<<"Mozilla/5.0">>)
    /\ fnInput.body.system = SystemString(<<"You are a helpful assistant.">>)
    /\ fnOutput[1].body.system =
          SystemArray(<<identityBlock, instructionsBlock,
                        SystemBlock(<<"You are a helpful assistant.">>, FALSE)>>)
    /\ fnOutput[1].body.metadata.user_id.value \in GeneratedUserIds

(***************************************************************************)
(* C19.  Whenever the client's request carried an x-api-key header, the    *)
(* headers of a normalized request hold authorization in Bearer form at    *)
(* dispatch, also when the client sent both x-api-key and an authorization *)
(* that is not in Bearer form.                                             *)
(***************************************************************************)
C19_BearerWhenApiKey ==
    (Normalized /\ fnInput.headers["x-api-key"].present) =>
        /\ fnOutput[1].headers["authorization"].present
        /\ StartsWith(fnOutput[1].headers["authorization"].value, "Bearer ")

(***************************************************************************)
(* Two invocations in one isolate.  An invocation owns its locals (its     *)
(* Headers object, its body, its metadata); what invocations share is the  *)
(* module-level bindings.  normalizeRequest stores a reference to the      *)
(* rule's thinking object in the body (request-normalizer.ts:385), so      *)
(* JSON.stringify(body) reads the rule table at the time it runs, and the  *)
(* orphan-repair retry stringifies after two awaits (part_000:257).        *)
(***************************************************************************)
\* the module-level bindings: request-normalizer.ts:50-95 and 101-116,
\* claude-code-identity.ts:31, part_000:24
ModuleTables ==
    [rules |-> MODEL_RULES, headers |-> CLAUDE_CODE_HEADERS,
     tools |-> CLAUDE_CODE_TOOLS, maxOverloadRetries |-> MAX_OVERLOAD_RETRIES]

\* the value the table gives a header
HeaderOf(table, name) ==
    LET hits == { k \in 1..Len(table) : table[k][1] = name }
    IN  IF hits = {} THEN <<>> ELSE table[CHOOSE k \in hits : TRUE][2]

\* the upstream's answers in the specification of concurrency
PairResponses ==
    { [status |-> 200, contentType |-> "application/json", transferEncoding |-> "",
       body |-> Body("json", "none", "string", <<Txt>>)],
      [status |-> 529, contentType |-> "application/json", transferEncoding |-> "",
       body |-> Body("json", "error.message", "string", <<Ovl>>)],
      [status |-> 400, contentType |-> "application/json", transferEncoding |-> "",
       body |-> Body("json", "error.message", "string", <<P1("toolu_A")>>)] }

PairConversations ==
    { <<>>,
      << [role |-> "assistant", content |-> <<ToolUse("toolu_A")>>],
         [role |-> "user", content |-> <<ToolResult("toolu_A")>>] >> }

\* a request: the rule its model matches (1 haiku, 2 sonnet) and its messages
PairRequests == [rule : {1, 2}, messages : PairConversations]

\* the locals of an invocation as proxyRequest is entered
FreshInvocation(req) ==
    [req |-> req, pc |-> "start", site |-> "none", hdrs |-> <<>>, thinking |-> 0,
     messages |-> <<>>, cleanedBodyText |-> <<>>, hadProactiveCleanup |-> FALSE,
     metadata |-> InitialMetadata, attempt |-> 0, response |-> NoResponse,
     sent |-> <<>>, sentHeaders |-> <<>>, got |-> <<>>, overlapped |-> FALSE]

\* JSON.stringify(body): body.thinking is a reference into the rule table
\* (0: the body has no thinking field)
StringifyBody(s, tbl) ==
    <<"thinking", IF s.thinking = 0 THEN "undefined" ELSE tbl.rules[s.thinking].thinking>>
      \o JSONStringify(s.messages)

\* makeApiCall (part_000:70-87) with the invocation's own Headers object
Dispatch(s, body, at) ==
    [s EXCEPT !.pc = "fetch", !.site = at,
              !.sent = Append(@, body), !.sentHeaders = Append(@, s.hdrs)]

MutAfterNormalize(tbl, k) ==
    [tbl EXCEPT !.rules = [j \in 1..Len(tbl.rules) |->
                              [tbl.rules[j] EXCEPT !.thinking = tbl.rules[k].thinking]]]

\* request-normalizer.ts:379-397: what normalizeRequest leaves in the
\* module-level tables; it reads the rule and the header table and writes
\* only to its own headers and body
AfterNormalize(tbl, k) == tbl

\* proxy.ts:239-249 and part_000:132-194: normalizeRequest, then
\* retryWithCleanup up to its first makeApiCall
Begin(s, tbl) ==
    LET rule == tbl.rules[s.req.rule]
        cleanupResult == detectAndRemoveOrphanedToolResults(s.req.messages)
        normalized ==
            [s EXCEPT !.hdrs = [userAgent |-> HeaderOf(tbl.headers, "user-agent")],
                      !.thinking = IF rule.thinking # "undefined" THEN s.req.rule ELSE 0,
                      !.messages = cleanupResult.cleanedMessages,
                      !.metadata = [InitialMetadata EXCEPT
                                       !.proactiveRemovedIds = cleanupResult.removedIds],
                      !.hadProactiveCleanup = cleanupResult.hadOrphans]
        cleaned == StringifyBody(normalized, AfterNormalize(tbl, s.req.rule))
    IN  Dispatch([normalized EXCEPT !.cleanedBodyText = cleaned], cleaned, "first")

Finish(s, resp, label) ==
    [s EXCEPT !.pc = "done", !.response = resp, !.metadata = [@ EXCEPT !.result = label]]

\* part_000:211-255
AfterLoop(s, resp) ==
    IF isStreamingResponse(resp) \/ Ok(resp)
    THEN Finish(s, resp, SuccessLabel(s.metadata, s.hadProactiveCleanup))
    ELSE LET errorInfo == detectOrphanedToolError(resp)
             checked == AfterDetectOrphanedToolError(resp)
         IN  IF resp.status = 400 /\ errorInfo.isError /\ Len(errorInfo.orphanedIds) > 0
             THEN [s EXCEPT !.messages = removeOrphanedToolResult(@, RepairId(errorInfo.orphanedIds)),
                            !.metadata = [@ EXCEPT
                                             !.removedToolUseIds = @ \o errorInfo.orphanedIds,
                                             !.retryCount = @ + 1],
                            !.response = checked, !.pc = "sleep", !.site = "repair"]
             ELSE Finish(s, checked, FinalLabel(s.metadata))

\* part_000:194-209 and 258-271: a makeApiCall of the invocation resolves
OnResponse(s, r, tbl) ==
    LET got == Received(r, Len(s.sent))
        heard == [s EXCEPT !.got = Append(@, r)]
    IN  IF s.site = "repair"
        THEN IF isStreamingResponse(got) \/ Ok(got)
             THEN Finish(heard, got, "retry_success")
             ELSE Finish(heard, got, heard.metadata.result)
        ELSE IF isOverloadError(got) /\ s.attempt + 1 <= tbl.maxOverloadRetries
             THEN [heard EXCEPT !.attempt = @ + 1,
                                !.metadata = [@ EXCEPT !.retryCount = s.attempt + 1],
                                !.response = AfterIsOverloadError(got),
                                !.pc = "sleep", !.site = "overload"]
             ELSE AfterLoop(heard, AfterIsOverloadError(got))

\* part_000:202-204 and 254-258: the sleep ends and the retry is dispatched
OnWake(s, tbl) ==
    IF s.site = "overload"
    THEN Dispatch(s, s.cleanedBodyText, "overload")
    ELSE Dispatch(s, StringifyBody(s, tbl), "repair")

InitPair ==
    /\ Idle
    /\ FnIdle
    /\ moduleState = ModuleTables
    /\ invocations \in [{1, 2} -> {FreshInvocation(req) : req \in PairRequests}]

\* the other invocation is between its first dispatch and its return
InFlight(i) == invocations[i].pc \in {"fetch", "sleep"}

Begins(i) ==
    /\ invocations[i].pc = "start"
    /\ invocations' = [invocations EXCEPT
                          ![i] = [Begin(@, moduleState) EXCEPT !.overlapped = InFlight(3 - i)]]
    /\ moduleState' = AfterNormalize(moduleState, invocations[i].req.rule)
    /\ UNCHANGED <<fnInput, fnOutput, fnStage>>
    /\ UNCHANGED <<request, pc, site, bodyText, messages, cleanedBodyText,
                   hadProactiveCleanup, metadata, response, attempt, returnedAt,
                   client, fetches, sent, sleeps, overloads, repairs, failedAt,
                   received, clientHeaders, headers, sentHeaders, cancelled>>

Responds(i, r) ==
    /\ invocations[i].pc = "fetch"
    /\ invocations' = [invocations EXCEPT ![i] = OnResponse(@, r, moduleState)]
    /\ UNCHANGED <<moduleState, fnInput, fnOutput, fnStage>>
    /\ UNCHANGED <<request, pc, site, bodyText, messages, cleanedBodyText,
                   hadProactiveCleanup, metadata, response, attempt, returnedAt,
                   client, fetches, sent, sleeps, overloads, repairs, failedAt,
                   received, clientHeaders, headers, sentHeaders, cancelled>>

Wakes(i) ==
    /\ invocations[i].pc = "sleep"
    /\ invocations' = [invocations EXCEPT
                          ![i] = [OnWake(@, moduleState) EXCEPT
                                     !.overlapped = @ \/ InFlight(3 - i)]]
    /\ UNCHANGED <<moduleState, fnInput, fnOutput, fnStage>>
    /\ UNCHANGED <<request, pc, site, bodyText, messages, cleanedBodyText,
                   hadProactiveCleanup, metadata, response, attempt, returnedAt,
                   client, fetches, sent, sleeps, overloads, repairs, failedAt,
                   received, clientHeaders, headers, sentHeaders, cancelled>>

NextPair ==
    \/ \E i \in {1, 2} : Begins(i)
    \/ \E i \in {1, 2}, r \in PairResponses : Responds(i, r)
    \/ \E i \in {1, 2} : Wakes(i)

SpecPair == InitPair /\ [][NextPair]_vars

\* the same request handled alone, given the same answers of the upstream:
\* the state it is in once every due retry has been dispatched
Settled(s, tbl) == IF s.pc = "sleep" THEN OnWake(s, tbl) ELSE s

RECURSIVE Consume(_, _, _)
Consume(s, got, tbl) ==
    IF got = <<>> THEN s
    ELSE Consume(Settled(OnResponse(s, Head(got), tbl), tbl), Tail(got), tbl)

HandledAlone(req, got) ==
    LET tbl == AfterNormalize(ModuleTables, req.rule)
    IN  Consume(Settled(Begin(FreshInvocation(req), ModuleTables), tbl), got, tbl)

SameAsAlone(s) ==
    \/ s.pc = "start" /\ s = FreshInvocation(s.req)
    \/ /\ s.pc # "start"
       /\ LET a == HandledAlone(s.req, s.got)
          IN  /\ IsPrefix(s.sent, a.sent)
              /\ IsPrefix(s.sentHeaders, a.sentHeaders)
              /\ Len(a.sent) = Len(s.sent) + (IF s.pc = "sleep" THEN 1 ELSE 0)
              /\ s.metadata = a.metadata
              /\ s.response = a.response
              /\ s.pc = "done" <=> a.pc = "done"

MaxSlashes == 2

\* part_001:17
FIXABLE_PATHS == { <<>>, <<"messages">>, <<"v1">>, <<"v1", "/", "messages">> }

\* part_001:33-36
PASSTHROUGH_PATHS ==
    { <<"v1", "/", "messages", "/", "count_tokens">>,
      <<"v1", "/", "chat", "/", "completions">> }

RECURSIVE StripLeadingSlashes(_)
StripLeadingSlashes(raw) ==
    IF raw # <<>> /\ Head(raw) = "/" THEN StripLeadingSlashes(Tail(raw)) ELSE raw

RECURSIVE StripTrailingSlashes(_)
StripTrailingSlashes(raw) ==
    IF raw # <<>> /\ raw[Len(raw)] = "/"
    THEN StripTrailingSlashes(SubSeq(raw, 1, Len(raw) - 1)) ELSE raw

\* part_001:45-54
normalizeTargetPath(raw) ==
    LET cleaned == StripTrailingSlashes(StripLeadingSlashes(raw))
    IN  IF cleaned \in FIXABLE_PATHS THEN Present(<<"v1", "/", "messages">>)
        ELSE IF cleaned \in PASSTHROUGH_PATHS THEN Present(cleaned)
        ELSE Absent

NoRoute == [matched |-> FALSE, targetHost |-> "", targetPath |-> <<>>]

\* part_001:61-82; the pattern is /claude/{host} and, optionally, a slash
\* and the rest
parseRoute(pathname) ==
    IF /\ Len(pathname) >= 4
       /\ SubSeq(pathname, 1, 3) = <<"/", "claude", "/">>
       /\ pathname[4] # "/"
       /\ Len(pathname) >= 5 => pathname[5] = "/"
    THEN LET targetPath == normalizeTargetPath(SubSeq(pathname, 6, Len(pathname)))
         IN  IF targetPath.present /\ targetPath.value # <<>>
             THEN [matched |-> TRUE, targetHost |-> pathname[4],
                   targetPath |-> targetPath.value]
             ELSE NoRoute
    ELSE NoRoute

\* String.prototype.includes('v1/messages')
IncludesMessagesPath(path) ==
    \E k \in 1..(Len(path) - 2) : SubSeq(path, k, k + 2) = <<"v1", "/", "messages">>

\* index.ts:22-68: what the Worker does with a pathname
Answer(kind, status, route) ==
    [kind |-> kind, status |-> status, targetHost |-> route.targetHost,
     targetPath |-> route.targetPath]

RouteRequest(pathname) ==
    LET route == parseRoute(pathname)
    IN  IF pathname = <<"/">> THEN Answer("landing", 200, NoRoute)
        ELSE IF pathname = <<"/", "health">> THEN Answer("health", 200, NoRoute)
        ELSE IF ~route.matched THEN Answer("invalid", 400, NoRoute)
        ELSE IF ~IncludesMessagesPath(route.targetPath) THEN Answer("forbidden", 403, NoRoute)
        ELSE Answer("proxied", 0, route)

Slashes(n) == [k \in 1..n |-> "/"]

\* the paths a client puts after /claude/{host}/
PathCores ==
    FIXABLE_PATHS \cup PASSTHROUGH_PATHS
      \cup { <<"v1", "/", "messages", "/", "batches">>, <<"v1", "/", "models">>,
             <<"v2", "/", "v1", "/", "messages">> }

RoutedHosts == {"api.anthropic.com", "anyrouter.top"}

Pathnames ==
    { <<"/">>, <<"/", "health">>, <<"/", "stats">>, <<"/", "claude">>,
      <<"/", "claude", "/">>, <<"/", "claude", "/", "/", "v1", "/", "messages">> }
      \cup { <<"/", "claude", "/", h>> : h \in RoutedHosts }
      \cup { <<"/", "claude", "/", h, "/">> \o Slashes(a) \o core \o Slashes(b) :
                h \in RoutedHosts, core \in PathCores,
                a \in 0..MaxSlashes, b \in 0..MaxSlashes }

InitRoute ==
    /\ Idle
    /\ Alone
    /\ fnInput \in [pathname : Pathnames]
    /\ fnOutput = <<>>
    /\ fnStage = 0

\* index.ts:15-70, up to the call of proxyRequest
Fetch ==
    /\ fnStage = 0
    /\ fnOutput' = <<RouteRequest(fnInput.pathname)>>
    /\ fnStage' = 1
    /\ UNCHANGED fnInput
    /\ UNCHANGED orchVars

NextRoute == Fetch

SpecRoute == InitRoute /\ [][NextRoute]_vars

\* the path after /claude/{host}/, without the slashes at its ends
CleanedPath(pathname) ==
    StripTrailingSlashes(StripLeadingSlashes(SubSeq(pathname, 6, Len(pathname))))

\* a request to /claude/{host}/{path}, with path a pass-through endpoint
PassThroughRequest(pathname) ==
    /\ Len(pathname) >= 6
    /\ SubSeq(pathname, 1, 3) = <<"/", "claude", "/">>
    /\ pathname[4] \in RoutedHosts
    /\ pathname[5] = "/"
    /\ CleanedPath(pathname) \in PASSTHROUGH_PATHS

(***************************************************************************)
(* C22.  A request to /claude/{host}/v1/chat/completions or to             *)
(* /claude/{host}/v1/messages/count_tokens is handed to proxyRequest with  *)
(* that path as the upstream path; the gateway does not answer it itself   *)
(* with a 400 or a 403.                                                    *)
(***************************************************************************)
C22_PassThroughForwarded ==
    (fnStage = 1 /\ "pathname" \in DOMAIN fnInput /\ PassThroughRequest(fnInput.pathname))
        => /\ fnOutput[1].kind = "proxied"
           /\ fnOutput[1].targetHost = fnInput.pathname[4]
           /\ fnOutput[1].targetPath = CleanedPath(fnInput.pathname)

\* the response has the framing of a stream
StreamingFramed(r) == r.contentType = "text/event-stream" \/ r.transferEncoding = "chunked"

\* retryWithCleanup has run its orphan check on a 400 (part_000:239-240):
\* the check reads a clone of the response, and a repair follows a positive one
Classified == repairs >= 1 \/ (response.status = 400 /\ response.clones >= 1)

\* proactive sanitization happens before dispatch 1
C23_SanitizedBeforeDispatch ==
    (Orchestrated /\ Len(sent) >= 1) =>
        /\ sent[1] = JSONStringify(
                        detectAndRemoveOrphanedToolResults(request.messages).cleanedMessages)
        /\ OrphanedIds(messages) = <<>>
        /\ hadProactiveCleanup = ProactiveHadOrphans

\* the orphan check comes after the overload loop
C23_ClassifiedAfterLoop ==
    /\ (Orchestrated /\ Orchestrated' /\ ~Classified /\ Classified') =>
          /\ received'.status = 400
          /\ received'.id = 1 + Len(BackoffSleeps)
          /\ Len(sent) = 1 + Len(BackoffSleeps)
          /\ ~isOverloadError(received')
    /\ (Orchestrated /\ Orchestrated' /\ Classified) =>
          /\ BackoffSleeps' = BackoffSleeps
          /\ (pc' = "fetch" => site' = "repair")

\* the streaming check comes before the 2xx check and the labelling
C23_StreamingBeforeLabel ==
    (Orchestrated /\ Returned /\ StreamingFramed(response)) =>
        /\ returnedAt \in {"streaming", "repair_streaming"}
        /\ returnedAt = "streaming" =>
              /\ metadata.result = SuccessLabel(metadata, hadProactiveCleanup)
              /\ response.status = 400 => response.clones = 0
        /\ returnedAt = "repair_streaming" => metadata.result = "retry_success"

(***************************************************************************)
(* C23.  Ordering within one invocation: no dispatch is made before the    *)
(* proactive sanitization has replaced body.messages; the orphan check on  *)
(* a 400 is made only once the overload loop has exited; and the streaming *)
(* check on a response comes before its 2xx check and its labelling.       *)
(***************************************************************************)
C23_Ordering ==
    /\ [](C23_SanitizedBeforeDispatch /\ C23_StreamingBeforeLabel)
    /\ [][C23_ClassifiedAfterLoop]_vars

\* a conversation with orphans, an overload retry, then a 400 that is
\* classified and repaired, and a streaming answer to the repair
C23_Witness ==
    /\ Orchestrated
    /\ ProactiveHadOrphans
    /\ Len(BackoffSleeps) >= 1
    /\ repairs = 1
    /\ returnedAt = "repair_streaming"
    /\ StreamingFramed(response)
    /\ response.status = 400

(***************************************************************************)
(* removeOrphanedToolResult called on the messages of a parsed body        *)
(* (part_000:92-109, called at 246).  The body is whatever JSON the client *)
(* sent: the content of a message is an array of blocks or, as the         *)
(* Messages API also allows, a string.                                     *)
(***************************************************************************)
\* longest conversation in the specification of the targeted removal
MaxMsgsRemove == 2

ArrayContent(blocks) == [isArray |-> TRUE, blocks |-> blocks]
StringContent == [isArray |-> FALSE, blocks |-> <<>>]

RemoveContents ==
    { StringContent, ArrayContent(<<>>), ArrayContent(<<ToolUse("toolu_A")>>),
      ArrayContent(<<ToolResult("toolu_A")>>),
      ArrayContent(<<TextBlock, ToolResult("toolu_X")>>),
      ArrayContent(<<ToolResult("toolu_A"), ToolResult("toolu_X"), ToolResult("toolu_A")>>) }

ParsedConversations ==
    UNION { { [i \in 1..k |-> [role |-> RoleAt(i), content |-> cs[i]]] :
                cs \in [1..k -> RemoveContents] } : k \in 0..MaxMsgsRemove }

\* the messages as the TypeScript type Message[] describes them
BlocksForm(parsed) ==
    [i \in 1..Len(parsed) |-> [role |-> parsed[i].role, content |-> parsed[i].content.blocks]]

ParsedForm(msgs) ==
    [i \in 1..Len(msgs) |-> [role |-> msgs[i].role, content |-> ArrayContent(msgs[i].content)]]

\* part_000:97-108: structuredClone, then message.content.filter(...) for
\* every message; a string has no filter method, and the call throws a
\* TypeError at the first such message.  after: the argument once the call
\* is over
CallRemoveOrphanedToolResult(parsed, toolUseId) ==
    IF \E i \in 1..Len(parsed) : ~parsed[i].content.isArray
    THEN [threw |-> TRUE, cleanedMessages |-> <<>>, after |-> parsed]
    ELSE [threw |-> FALSE,
          cleanedMessages |-> ParsedForm(removeOrphanedToolResult(BlocksForm(parsed), toolUseId)),
          after |-> parsed]

InitRemove ==
    /\ Idle
    /\ Alone
    /\ fnInput \in [messages : ParsedConversations, toolUseId : Ids]
    /\ fnOutput = <<>>
    /\ fnStage = 0

\* part_000:246
RemoveOrphanedToolResult ==
    /\ fnStage = 0
    /\ fnOutput' = <<CallRemoveOrphanedToolResult(fnInput.messages, fnInput.toolUseId)>>
    /\ fnStage' = 1
    /\ UNCHANGED fnInput
    /\ UNCHANGED orchVars

NextRemove == RemoveOrphanedToolResult

SpecRemove == InitRemove /\ [][NextRemove]_vars

\* the content of a message without its tool_result blocks for id
WithoutResultsFor(content, id) ==
    IF content.isArray
    THEN ArrayContent(SelectSeq(content.blocks,
                                LAMBDA b : ~(b.type = "tool_result" /\ b.tool_use_id = id)))
    ELSE content

(***************************************************************************)
(* C24.  removeOrphanedToolResult is total and pure: for every message     *)
(* sequence and id I it returns a copy in which exactly the tool_result    *)
(* blocks whose tool_use_id is I are gone, the other blocks keep their     *)
(* order, the messages keep their number and order (a message left with no *)
(* content is retained), and the input is not changed.                     *)
(***************************************************************************)
C24_TargetedRemoveTotal ==
    (fnStage = 1 /\ "toolUseId" \in DOMAIN fnInput) =>
        /\ ~fnOutput[1].threw
        /\ Len(fnOutput[1].cleanedMessages) = Len(fnInput.messages)
        /\ \A i \in 1..Len(fnInput.messages) :
              /\ fnOutput[1].cleanedMessages[i].role = fnInput.messages[i].role
              /\ fnOutput[1].cleanedMessages[i].content =
                    WithoutResultsFor(fnInput.messages[i].content, fnInput.toolUseId)
        /\ fnOutput[1].after = fnInput.messages

(***************************************************************************)
(* detectOrphanedToolError on its own (claude-code-identity.ts:571-641),   *)
(* over responses whose message may hold matches of both patterns.         *)
(***************************************************************************)
ClassifierBodies ==
    Bodies \cup
    { Body("json", "error.message", "string", <<P1("toolu_X"), P2("toolu_A")>>),
      Body("json", "error.message", "string", <<P2("toolu_A"), Txt, P1("toolu_X")>>),
      Body("json", "error.message", "string", <<P2("toolu_A"), P2("toolu_X")>>),
      Body("json", "message", "string", <<P1("toolu_A")>>),
      Body("text", "none", "string", <<P1("toolu_A")>>) }

ClassifierResponses ==
    { Received([status |-> st, contentType |-> f.contentType,
                transferEncoding |-> f.transferEncoding, body |-> b], 1) :
        st \in Statuses, f \in Framings, b \in ClassifierBodies }

InitClassify ==
    /\ Idle
    /\ Alone
    /\ fnInput \in [response : ClassifierResponses]
    /\ fnOutput = <<>>
    /\ fnStage = 0

\* part_000:240
DetectOrphanedToolError ==
    /\ fnStage = 0
    /\ fnOutput' = <<[errorInfo |-> detectOrphanedToolError(fnInput.response),
                      response |-> AfterDetectOrphanedToolError(fnInput.response)]>>
    /\ fnStage' = 1
    /\ UNCHANGED fnInput
    /\ UNCHANGED orchVars

NextClassify == DetectOrphanedToolError

SpecClassify == InitClassify /\ [][NextClassify]_vars

\* the ids the matches of P1 and P2 in a message capture, in match order
AllCaptures(msg) ==
    LET hits == SelectSeq(msg, LAMBDA seg : seg.kind \in {"P1", "P2"})
    IN  [k \in 1..Len(hits) |-> hits[k].id]

\* the error.message of a response, if its body is JSON with a string there
ErrorMessageOf(r) ==
    IF r.body.form = "json" /\ r.body.path = "error.message" /\ r.body.msgType = "string"
    THEN r.body.msg ELSE <<>>

Classification ==
    LET r == fnInput.response
        ids == AllCaptures(ErrorMessageOf(r))
    IN  IF r.status = 400 /\ ids # <<>>
        THEN /\ fnOutput[1].errorInfo.isError
             /\ fnOutput[1].errorInfo.orphanedIds = ids
        ELSE fnOutput[1].errorInfo = NoOrphanError

(***************************************************************************)
(* C25.  detectOrphanedToolError reports an orphan error only for a 400    *)
(* whose JSON body has an error.message matching P1 or P2, and then        *)
(* returns all captured ids in match order; for any other status, a body   *)
(* that is not JSON, a missing or non-string message, or no match, it      *)
(* returns no error and no ids; it never throws.                           *)
(***************************************************************************)
C25_OrphanClassifier ==
    (fnStage = 1 /\ "response" \in DOMAIN fnInput) => Classification

\* as C25, except that the ids returned are those of one pattern: the
\* captures of P1 in match order if P1 matches, else the captures of P2
C25_OrphanClassifierAmended ==
    (fnStage = 1 /\ "response" \in DOMAIN fnInput) =>
        LET r == fnInput.response
            p1 == Captures(ErrorMessageOf(r), "P1")
            p2 == Captures(ErrorMessageOf(r), "P2")
        IN  IF r.status = 400 /\ (p1 # <<>> \/ p2 # <<>>)
            THEN /\ fnOutput[1].errorInfo.isError
                 /\ fnOutput[1].errorInfo.orphanedIds = (IF p1 # <<>> THEN p1 ELSE p2)
            ELSE fnOutput[1].errorInfo = NoOrphanError

\* a 400 whose message matches both patterns: the ids of P1 alone come back
C25_Witness ==
    /\ fnStage = 1
    /\ "response" \in DOMAIN fnInput
    /\ fnInput.response.status = 400
    /\ Captures(ErrorMessageOf(fnInput.response), "P1") = <<"toolu_X">>
    /\ Captures(ErrorMessageOf(fnInput.response), "P2") = <<"toolu_A">>
    /\ fnOutput[1].errorInfo.isError
    /\ fnOutput[1].errorInfo.orphanedIds = <<"toolu_X">>
    /\ fnOutput[1].errorInfo.provider = "claude"

\* the keywords of the rule table, in table order
RuleKeywords == [k \in 1..Len(MODEL_RULES) |-> MODEL_RULES[k].keyword]

\* the request passes every guard of normalizeRequest
Activates ==
    /\ Includes(ToLowerCase(fnInput.targetHost), "anyrouter.top")
    /\ fnInput.body.kind = "object"
    /\ fnInput.body.model.present
    /\ \E k \in 1..Len(RuleKeywords) :
          Includes(ToLowerCase(fnInput.body.model.value), RuleKeywords[k])

\* the first rule in table order whose keyword the model name holds
FirstRuleInTableOrder ==
    LET lower == ToLowerCase(fnInput.body.model.value)
        first == CHOOSE k \in 1..Len(RuleKeywords) :
                    /\ Includes(lower, RuleKeywords[k])
                    /\ \A j \in 1..(k - 1) : ~Includes(lower, RuleKeywords[j])
    IN  MODEL_RULES[first]

\* what tells the rule applied: the thinking field, the temperature field
\* and the beta flags of the result
RuleApplied(rule, out) ==
    /\ out.body.thinking = (IF rule.thinking = "undefined" THEN "absent" ELSE rule.thinking)
    /\ rule.removeTemperature => out.body.temperature = "absent"
    /\ ~rule.removeTemperature => out.body.temperature = fnInput.body.temperature
    /\ \A k \in 1..Len(rule.requiredBetaFlags) :
          rule.requiredBetaFlags[k] \in Range(FlagsOf(OrEmpty(out.headers["anthropic-beta"])))
    /\ \A f \in Range(FlagsOf(OrEmpty(out.headers["anthropic-beta"]))) :
          f \in Range(rule.requiredBetaFlags) \cup Range(ClientFlags(fnInput.headers["anthropic-beta"]))

(***************************************************************************)
(* C26.  Activation guard: normalizeRequest returns headers, body and      *)
(* bodyText unchanged, with normalized = false, unless the target host     *)
(* contains anyrouter.top (in any case), the body is a non-null JSON       *)
(* object that is not an array, body.model is a string, and body.model     *)
(* contains a rule keyword (in any case); when several keywords match, the *)
(* rule applied is the first in table order (haiku, sonnet, opus).         *)
(***************************************************************************)
C26_ActivationGuard ==
    (fnStage >= 1 /\ "targetHost" \in DOMAIN fnInput) =>
        /\ ~Activates =>
              /\ ~fnOutput[1].normalized
              /\ fnOutput[1].headers = fnInput.headers
              /\ fnOutput[1].body = fnInput.body
              /\ fnOutput[1].bodyText = ClientText(fnInput.body)
        /\ Activates =>
              /\ fnOutput[1].normalized
              /\ RuleApplied(FirstRuleInTableOrder, fnOutput[1])

\* a model name holding sonnet before haiku, on a host written in another
\* case: the haiku rule is the one applied
C26_Witness ==
    /\ fnStage = 1
    /\ "targetHost" \in DOMAIN fnInput
    /\ fnInput.targetHost = <<"AnyRouter.top">>
    /\ fnInput.body.model = Present(<<"sonnet", "-", "Haiku">>)
    /\ fnOutput[1].normalized
    /\ fnOutput[1].body.thinking = "absent"
    /\ fnOutput[1].body.temperature = "0.7"
    /\ C26_ActivationGuard

\* !x, for the max_tokens a client sends: absent, or the number 0
Falsy(num) == ~num.present \/ num.value = 0

MalformedOrMessageless == request.kind \in {"invalid_json", "json_null", "no_messages"}

(***************************************************************************)
(* C28.  A body that is not valid JSON, is JSON but not an object, or is   *)
(* an object without an array-valued messages field is dispatched exactly  *)
(* once, with no sanitization and no retry: proxyRequest makes one         *)
(* upstream dispatch, retryWithCleanup's cleanup and retry logic does not  *)
(* run, and the metadata returned has retryCount 0, empty id lists and     *)
(* result success.                                                         *)
(***************************************************************************)
C28_MalformedDispatchedOnce ==
    MalformedOrMessageless =>
        /\ fetches <= 1
        /\ sent = <<>>
        /\ sleeps = <<>>
        /\ repairs = 0
        /\ pc = "done" => fetches = 1
        /\ (pc = "done" /\ returnedAt # "threw") =>
              /\ metadata = InitialMetadata
              /\ Verbatim(client)

\* an orphan-repair dispatch was made
RepairDispatched == returnedAt \in {"repair", "repair_streaming"}

(***************************************************************************)
(* C29.  In every result retryWithCleanup returns for a body with          *)
(* messages, metadata.retryCount is the number of upstream dispatches of   *)
(* the invocation minus one (the overload retries plus the orphan-repair   *)
(* retry), so it is between 0 and 3, and removedToolUseIds is non-empty    *)
(* if and only if an orphan-repair dispatch was made.                      *)
(***************************************************************************)
C29_RetryCount ==
    (Orchestrated /\ Returned) =>
        /\ metadata.retryCount = Len(sent) - 1
        /\ metadata.retryCount = Len(BackoffSleeps) + repairs
        /\ metadata.retryCount \in 0..3
        /\ metadata.removedToolUseIds # <<>> <=> RepairDispatched
        /\ RepairDispatched <=> repairs = 1

\* two overload retries, then a 400 citing an orphan and the repair retry
C29_Witness ==
    /\ Orchestrated
    /\ Returned
    /\ RepairDispatched
    /\ Len(sent) = 4
    /\ metadata.retryCount = 3
    /\ metadata.removedToolUseIds # <<>>

\* the 100 ms pauses among the sleeps of the invocation
RepairPauses == SelectSeq(sleeps, LAMBDA ms : ms = REPAIR_PAUSE_MS)

\* the orphan-repair dispatch is pending or has been answered
AfterRepairDispatch == Orchestrated /\ repairs = 1 /\ pc \in {"fetch", "done"}

C30_ReturnedAsIs ==
    (Orchestrated /\ RepairDispatched) =>
        /\ response.id = Len(sent)
        /\ Verbatim(response)
        /\ response.clones = 0
        /\ ~response.bodyUsed
        /\ client = response
        /\ Len(RepairPauses) = 1
        /\ sleeps[Len(sleeps)] = REPAIR_PAUSE_MS
        /\ metadata.retryCount = Len(BackoffSleeps) + 1

C30_NothingAfterRepair ==
    (AfterRepairDispatch /\ Orchestrated') =>
        /\ sleeps' = sleeps
        /\ sent' = sent
        /\ fetches' = fetches
        /\ metadata'.retryCount = metadata.retryCount
        /\ pc' = "done"

(***************************************************************************)
(* C30.  The orphan-repair dispatch is the last dispatch of an invocation: *)
(* after it retryWithCleanup makes no overload check and no further retry, *)
(* so an overload response (500, 503 or 529) to the repair dispatch is     *)
(* returned as it is; the repair dispatch follows exactly one 100 ms pause *)
(* and no back-off sleep follows it.                                       *)
(***************************************************************************)
C30_RepairIsLast ==
    /\ []C30_ReturnedAsIs
    /\ [][C30_NothingAfterRepair]_vars

\* the repair dispatch was answered with an overload response, which came back
C30_Witness ==
    /\ Orchestrated
    /\ returnedAt = "repair"
    /\ IsOverloadResponse(response)
    /\ response.status = 529
    /\ sleeps = <<REPAIR_PAUSE_MS>>
    /\ Len(sent) = 2

====
